---- MODULE Spec2Model ----
(***************************************************************************)
(* A model of the novelty-weighted pedestrian router:                      *)
(*   - history.py : the SQLite-backed walk history (WalkHistory)           *)
(*   - router.py  : A* shortest path and the penalty-driven novelty search *)
(*   - graph_builder.py : the CSR graph the router reads, its builder, its *)
(*                        file, and the nearest-node lookup                *)
(*   - router.py  : the turn-by-turn instructions (generate_instructions)  *)
(*   - cli.py     : the route, record and stats commands                   *)
(*                                                                         *)
(* Numbers.  Lengths are integers (decimetre-like units of a planar grid); *)
(* penalty factors are fixed-point integers over SCALE, which represents   *)
(* every factor the search can form exactly; novelty and overhead are      *)
(* fractions <<numerator, denominator>> compared by cross-multiplication.  *)
(* Floating-point rounding is not modelled.                                *)
(***************************************************************************)
EXTENDS Integers, Sequences, FiniteSets, TLC

VARIABLES
    \* ---- walk history (history.py) ----
    db,        \* the committed table: canonical key -> walk_count, one entry per row
    conn,      \* per handle: "closed" | "open"
    intxn,     \* per handle: an implicit transaction is open (uncommitted DML)
    work,      \* per handle: the table as its open transaction sees it
    hpc,       \* per handle: "idle" | "recording" (inside record_walk)
    todo,      \* per handle: the elements of route_edges still to iterate
    ret,       \* per handle: the last operation and the value it returned
    ghost,     \* history bookkeeping for the properties (not program state)
    twice,     \* SpecTwice: the list recorded twice and the table before it
    \* ---- graph and router (graph_builder.py, router.py) ----
    graph,     \* the CompactGraph the router runs on
    nr,        \* the frame of novelty_route: inputs, locals, position, result
    \* ---- builder, instructions, nearest node, CLI ----
    bd,        \* the frame of build_graph: the ways, the position, the nx graph
    npz,       \* the persisted graph file (the arrays _save_graph writes)
    turn,      \* a step boundary of generate_instructions: bearings, angle, class
    gi,        \* the frame of generate_instructions: path, edges, groups, steps
    cli,       \* a CLI command: which one, its options, its position, its exit
    nn,        \* the frame of find_nearest_node: nodes, query, result
    \* ---- one A* search, step by step (router.py) ----
    sp         \* the frame of a search: arrays, queue, counter, position, result

histVars  == <<db, conn, intxn, work, hpc, todo, ret, ghost, twice>>
routeVars == <<graph, nr>>
otherVars == <<bd, npz, turn, gi, cli, nn, sp>>
vars      == <<db, conn, intxn, work, hpc, todo, ret, ghost, twice, graph, nr,
               bd, npz, turn, gi, cli, nn, sp>>

\* the parts of the program a specification does not run
RestUnused == bd = 0 /\ npz = 0 /\ turn = 0 /\ gi = 0 /\ cli = 0 /\ nn = 0 /\ sp = 0

(***************************************************************************)
(* Generic helpers                                                         *)
(***************************************************************************)
Min2(a, b) == IF a <= b THEN a ELSE b
Max2(a, b) == IF a >= b THEN a ELSE b

\* history.py's _edge_key: (min(n1, n2), max(n1, n2))
_edge_key_as_given(n1, n2) == <<n1, n2>>
_edge_key(n1, n2) == <<Min2(n1, n2), Max2(n1, n2)>>

(***************************************************************************)
(* WALK HISTORY (history.py)                                               *)
(*                                                                         *)
(* The edge_history table is a function from the primary keys of its rows  *)
(* (edge_start, edge_end) to walk_count.  A handle (a WalkHistory object)  *)
(* reads and writes through its sqlite3 connection: the first INSERT opens *)
(* an implicit transaction that only commit() makes part of the committed  *)
(* table; close() without commit() throws the transaction away.            *)
(* last_walked is not modelled.                                            *)
(***************************************************************************)
\* Bounds of the history model
MaxLen   == 2      \* longest route_edges list passed to record_walk
MaxCalls == 2      \* record_walk calls per behaviour
MaxPrior == 1      \* largest walk_count of a row that exists before SpecTwice's calls

Handles == {1}
Ids     == {3, 5, 8}                  \* OSM node ids
Rows    == Ids \X Ids                 \* possible primary keys (edge_start, edge_end)
NodePairs == {<<5, 3>>, <<3, 5>>, <<5, 8>>}   \* the (node_a, node_b) tuples of routes
Bad     == <<0>>                      \* a list element that is not a pair, such as (0,)
Elements == NodePairs \cup {Bad}

RECURSIVE SeqsUpTo(_, _)
SeqsUpTo(S, n) ==
    IF n = 0 THEN {<<>>}
    ELSE LET shorter == SeqsUpTo(S, n - 1)
         IN  shorter \cup {Append(s, x) : s \in {t \in shorter : Len(t) = n - 1}, x \in S}

RouteEdgeLists  == SeqsUpTo(Elements, MaxLen)     \* any list, malformed elements included
NodePairLists   == SeqsUpTo(NodePairs, MaxLen)    \* lists of node pairs

EmptyTable == [r \in {} |-> 0]

\* the table a handle's statements read and write: its own open transaction,
\* else the committed table
ViewDirty(h) == IF intxn[1] THEN work[1] ELSE db
View(h) == IF intxn[h] THEN work[h] ELSE db

\* INSERT ... VALUES (?, ?, 1, ?) ON CONFLICT(edge_start, edge_end)
\*   DO UPDATE SET walk_count = walk_count + 1
UpsertReplace(t, key) == IF key \in DOMAIN t THEN [t EXCEPT ![key] = 1] ELSE (key :> 1) @@ t
Upsert(t, key) == IF key \in DOMAIN t THEN [t EXCEPT ![key] = @ + 1] ELSE (key :> 1) @@ t

\* SELECT edge_start, edge_end FROM edge_history
get_walked_edges(t) == DOMAIN t

\* fetchone() of SELECT walk_count ... WHERE edge_start = ? AND edge_end = ?;
\* row is not None
is_walked(t, n1, n2) == _edge_key(n1, n2) \in DOMAIN t

\* row[0] if row else 0
get_walk_count(t, n1, n2) ==
    LET key == _edge_key(n1, n2) IN IF key \in DOMAIN t THEN t[key] ELSE 0

RECURSIVE SumCounts(_, _)
SumCounts(t, S) ==
    IF S = {} THEN 0
    ELSE LET r == CHOOSE x \in S : TRUE IN t[r] + SumCounts(t, S \ {r})

\* COUNT(*), SUM(walk_count) or 0, MAX(walk_count) or 0 over edge_history
stats(t) ==
    [unique_edges_walked   |-> Cardinality(DOMAIN t),
     total_edge_traversals |-> SumCounts(t, DOMAIN t),
     max_walks_single_edge |-> IF DOMAIN t = {} THEN 0
                               ELSE CHOOSE m \in {t[r] : r \in DOMAIN t} :
                                        \A r \in DOMAIN t : t[r] <= m]

NoRet == [op |-> "none", val |-> 0]
ReadOps == {"get_walked_edges", "is_walked", "get_walk_count", "stats"}

\* ---- bookkeeping for the properties ----
\* walk_count of row r, 0 when the table has no such row
CountOf(t, r) == IF r \in DOMAIN t THEN t[r] ELSE 0

\* the unordered pair of a row or of a list element
Unordered(p) == {p[1], p[2]}

\* how many elements of the list E name the undirected edge {a, b}
RECURSIVE Occ(_, _)
Occ(ab, E) ==
    IF E = <<>> THEN 0
    ELSE (IF Head(E) # Bad /\ Unordered(Head(E)) = ab THEN 1 ELSE 0) + Occ(ab, Tail(E))

\* the table with one traversal added for every element of E
RECURSIVE AddAll(_, _)
AddAll(t, E) ==
    IF E = <<>> THEN t
    ELSE LET lo == Min2(Head(E)[1], Head(E)[2])
             hi == Max2(Head(E)[1], Head(E)[2])
         IN  AddAll((<<lo, hi>> :> CountOf(t, <<lo, hi>>) + 1) @@ t, Tail(E))

GhostInit ==
    [ncalls    |-> 0,                        \* record_walk calls started
     callE     |-> <<>>,                     \* the argument of the call in progress
     ups       |-> [p \in NodePairs |-> 0],  \* upserts executed per ordered pair
     discarded |-> FALSE,                    \* a close threw uncommitted upserts away
     atomic    |-> EmptyTable]               \* the table if every call were all-or-nothing

\* a store on disk holding table t, no handle open yet
StoreInit(t) ==
    /\ db = t
    /\ conn = [h \in Handles |-> "closed"]
    /\ intxn = [h \in Handles |-> FALSE]
    /\ work = [h \in Handles |-> EmptyTable]
    /\ hpc = [h \in Handles |-> "idle"]
    /\ todo = [h \in Handles |-> <<>>]
    /\ ret = [h \in Handles |-> NoRet]
    /\ ghost = GhostInit

\* WalkHistory.__init__: connect, CREATE TABLE IF NOT EXISTS, commit
Open(h) ==
    /\ conn[h] = "closed"
    /\ conn' = [conn EXCEPT ![h] = "open"]
    /\ intxn' = [intxn EXCEPT ![h] = FALSE]
    /\ ret' = [ret EXCEPT ![h] = [op |-> "open", val |-> 0]]
    /\ UNCHANGED <<db, work, hpc, todo, ghost, twice, graph, nr, otherVars>>

\* record_walk entered with route_edges = E
RecordWalkBegin(h, E) ==
    /\ conn[h] = "open" /\ hpc[h] = "idle"
    /\ ghost.ncalls < MaxCalls
    /\ hpc' = [hpc EXCEPT ![h] = "recording"]
    /\ todo' = [todo EXCEPT ![h] = E]
    /\ ret' = [ret EXCEPT ![h] = [op |-> "record_walk", val |-> 0]]
    /\ ghost' = [ghost EXCEPT !.ncalls = @ + 1, !.callE = E]
    /\ UNCHANGED <<db, conn, intxn, work, twice, graph, nr, otherVars>>

\* one iteration of `for n1, n2 in route_edges`: canonicalize and upsert
RecordWalkUpsert(h) ==
    /\ hpc[h] = "recording" /\ todo[h] # <<>> /\ Head(todo[h]) # Bad
    /\ LET e   == Head(todo[h])
           key == _edge_key(e[1], e[2])
       IN  /\ work' = [work EXCEPT ![h] = Upsert(View(h), key)]
           /\ ghost' = [ghost EXCEPT !.ups[e] = @ + 1]
    /\ intxn' = [intxn EXCEPT ![h] = TRUE]
    /\ todo' = [todo EXCEPT ![h] = Tail(@)]
    /\ UNCHANGED <<db, conn, hpc, ret, twice, graph, nr, otherVars>>

\* the loop reaches an element it cannot unpack into n1, n2: the exception
\* leaves record_walk, and nothing rolls the open transaction back
RecordWalkRaise(h) ==
    /\ hpc[h] = "recording" /\ todo[h] # <<>> /\ Head(todo[h]) = Bad
    /\ hpc' = [hpc EXCEPT ![h] = "idle"]
    /\ todo' = [todo EXCEPT ![h] = <<>>]
    /\ ret' = [ret EXCEPT ![h] = [op |-> "record_walk", val |-> 1]]
    /\ ghost' = [ghost EXCEPT !.callE = <<>>]
    /\ UNCHANGED <<db, conn, intxn, work, twice, graph, nr, otherVars>>

\* self.conn.commit() after the loop
RecordWalkCommit(h) ==
    /\ hpc[h] = "recording" /\ todo[h] = <<>>
    /\ db' = View(h)
    /\ intxn' = [intxn EXCEPT ![h] = FALSE]
    /\ hpc' = [hpc EXCEPT ![h] = "idle"]
    /\ ret' = [ret EXCEPT ![h] = [op |-> "record_walk", val |-> 2]]
    /\ ghost' = [ghost EXCEPT !.callE = <<>>, !.atomic = AddAll(@, ghost.callE)]
    /\ UNCHANGED <<conn, work, todo, twice, graph, nr, otherVars>>

GetWalkedEdges(h) ==
    /\ conn[h] = "open" /\ hpc[h] = "idle"
    /\ ret' = [ret EXCEPT ![h] = [op |-> "get_walked_edges",
                                  val |-> get_walked_edges(View(h))]]
    /\ UNCHANGED <<db, conn, intxn, work, hpc, todo, ghost, twice, graph, nr, otherVars>>

IsWalked(h, n1, n2) ==
    /\ conn[h] = "open" /\ hpc[h] = "idle"
    /\ ret' = [ret EXCEPT ![h] = [op |-> "is_walked",
                                  val |-> is_walked(View(h), n1, n2)]]
    /\ UNCHANGED <<db, conn, intxn, work, hpc, todo, ghost, twice, graph, nr, otherVars>>

GetWalkCount(h, n1, n2) ==
    /\ conn[h] = "open" /\ hpc[h] = "idle"
    /\ ret' = [ret EXCEPT ![h] = [op |-> "get_walk_count",
                                  val |-> get_walk_count(View(h), n1, n2)]]
    /\ UNCHANGED <<db, conn, intxn, work, hpc, todo, ghost, twice, graph, nr, otherVars>>

Stats(h) ==
    /\ conn[h] = "open" /\ hpc[h] = "idle"
    /\ ret' = [ret EXCEPT ![h] = [op |-> "stats", val |-> stats(View(h))]]
    /\ UNCHANGED <<db, conn, intxn, work, hpc, todo, ghost, twice, graph, nr, otherVars>>

\* self.conn.close(): an open transaction is not committed
Close(h) ==
    /\ conn[h] = "open" /\ hpc[h] = "idle"
    /\ conn' = [conn EXCEPT ![h] = "closed"]
    /\ intxn' = [intxn EXCEPT ![h] = FALSE]
    /\ ret' = [ret EXCEPT ![h] = [op |-> "close", val |-> 0]]
    /\ ghost' = [ghost EXCEPT !.discarded = @ \/ (intxn[h] /\ work[h] # db)]
    /\ UNCHANGED <<db, work, hpc, todo, twice, graph, nr, otherVars>>

\* The walk history under every sequence of its operations on one handle,
\* starting from a fresh store.
FreshInit == StoreInit(EmptyTable) /\ twice = 0 /\ graph = 0 /\ nr = 0 /\ RestUnused

HistNext ==
    \E h \in Handles :
        \/ Open(h)
        \/ \E E \in RouteEdgeLists : RecordWalkBegin(h, E)
        \/ RecordWalkUpsert(h)
        \/ RecordWalkRaise(h)
        \/ RecordWalkCommit(h)
        \/ GetWalkedEdges(h)
        \/ \E n1, n2 \in Ids : IsWalked(h, n1, n2)
        \/ \E n1, n2 \in Ids : GetWalkCount(h, n1, n2)
        \/ Stats(h)
        \/ Close(h)

SpecHist == FreshInit /\ [][HistNext]_vars

\* record_walk(E); record_walk(E) for a list E of node pairs, on a store that
\* may already hold rows.
PriorTables ==
    UNION {[S -> 1..MaxPrior] : S \in SUBSET {_edge_key(p[1], p[2]) : p \in NodePairs}}

TwiceInit ==
    \E t \in PriorTables, E \in NodePairLists :
        /\ StoreInit(t)
        /\ twice = [E |-> E, base |-> t]
        /\ graph = 0 /\ nr = 0 /\ RestUnused

RecordSameList == ghost.ncalls < 2 /\ RecordWalkBegin(1, twice.E)

TwiceNext ==
    \/ Open(1)
    \/ RecordSameList
    \/ RecordWalkUpsert(1)
    \/ RecordWalkCommit(1)
    \/ \E n1, n2 \in Ids : GetWalkCount(1, n1, n2)

SpecTwice == TwiceInit /\ [][TwiceNext]_vars

(***************************************************************************)
(* GEODESY AND THE COMPACT GRAPH (graph_builder.py)                        *)
(*                                                                         *)
(* Nodes lie on a grid of 0.001-degree steps near the origin; haversine is *)
(* modelled by the planar distance in tenths of a grid step, rounded up    *)
(* (a metric, like the great-circle distance: zero on identical points,    *)
(* symmetric, and satisfying the triangle inequality).                     *)
(***************************************************************************)
ISqrtCeil(n) == CHOOSE r \in 0..n : r * r >= n /\ (r = 0 \/ (r - 1) * (r - 1) < n)

haversine(lat1, lon1, lat2, lon2) ==
    ISqrtCeil(100 * ((lat2 - lat1) * (lat2 - lat1) + (lon2 - lon1) * (lon2 - lon1)))

\* the nodes of the extract: OSM id -> (lat, lon)
OsmIds == {1, 2, 3, 5}
Coord  == (1 :> <<0, 0>>) @@ (2 :> <<0, 1>>) @@ (3 :> <<1, 0>>) @@ (5 :> <<1, 2>>)
AllKeys == {k \in OsmIds \X OsmIds : k[1] < k[2]}

\* the ascending sequence of a finite set of integers
RECURSIVE SortedIds(_)
SortedIds(S) ==
    IF S = {} THEN <<>>
    ELSE LET m == CHOOSE x \in S : \A y \in S : x <= y
         IN  <<m>> \o SortedIds(S \ {m})

RECURSIVE SumTo(_, _)
SumTo(f, n) == IF n = 0 THEN 0 ELSE f[n - 1] + SumTo(f, n - 1)

\* _graph_to_compact on the graph whose undirected edges are E (each with
\* weight = haversine of its endpoints, as build_graph stores it): nodes sorted
\* by OSM id, CSR offsets by prefix sum of the degrees, every edge written in
\* both directions, each node's slice sorted by target index.
GraphToCompact(E) ==
    LET ids    == SortedIds(UNION {{e[1], e[2]} : e \in E})
        N      == Len(ids)
        idx(o) == (CHOOSE i \in 1..N : ids[i] = o) - 1
        nbrs   == [i \in 0..(N - 1) |->
                     SortedIds({idx(e[2]) : e \in {x \in E : x[1] = ids[i + 1]}}
                             \cup {idx(e[1]) : e \in {x \in E : x[2] = ids[i + 1]}})]
        deg    == [i \in 0..(N - 1) |-> Len(nbrs[i])]
        offs   == [i \in 0..N |-> SumTo(deg, i)]
        owner(j) == CHOOSE i \in 0..(N - 1) : offs[i] <= j /\ j < offs[i + 1]
        tgt(j) == nbrs[owner(j)][j - offs[owner(j)] + 1]
        lat(i) == Coord[ids[i + 1]][1]
        lon(i) == Coord[ids[i + 1]][2]
    IN  [node_ids    |-> [i \in 0..(N - 1) |-> ids[i + 1]],
         node_lats   |-> [i \in 0..(N - 1) |-> lat(i)],
         node_lons   |-> [i \in 0..(N - 1) |-> lon(i)],
         adj_offsets |-> offs,
         adj_targets |-> [j \in 0..(offs[N] - 1) |-> tgt(j)],
         adj_weights |-> [j \in 0..(offs[N] - 1) |->
                            haversine(lat(owner(j)), lon(owner(j)), lat(tgt(j)), lon(tgt(j)))]]

\* CompactGraph.number_of_nodes
number_of_nodes(G) == Cardinality(DOMAIN G.node_ids)

\* CompactGraph.idx_for_osm_id (the caller passes ids of the graph)
idx_for_osm_id(G, osm_id) == CHOOSE i \in DOMAIN G.node_ids : G.node_ids[i] = osm_id

\* CompactGraph.neighbors: the slots adj_offsets[idx] .. adj_offsets[idx + 1] - 1
neighbors(G, idx) == G.adj_offsets[idx]..(G.adj_offsets[idx + 1] - 1)

(***************************************************************************)
(* ROUTING ENGINE (router.py)                                              *)
(***************************************************************************)
SCALE == 2 ^ 10           \* penalty factors are integers over SCALE
Inf   == 0 - 1            \* np.inf in g_score
NoParent == 0 - 1         \* the came_from sentinel

\* router.py's _edge_key
_edge_key_router(n1, n2) == <<Min2(n1, n2), Max2(n1, n2)>>

\* the haversine heuristic of node idx towards the target's coordinates
_heuristic_idx(G, idx, target_lat, target_lon) ==
    haversine(G.node_lats[idx], G.node_lons[idx], target_lat, target_lon)

\* _reconstruct_path: walk the parent pointers from the target back
RECURSIVE ReconstructFrom(_, _, _)
ReconstructFrom(came_from, src_idx, cur) ==
    IF cur = NoParent THEN <<>>
    ELSE IF cur = src_idx THEN <<cur>>
    ELSE ReconstructFrom(came_from, src_idx, came_from[cur]) \o <<cur>>

\* the walk that breaks before it appends the source
_reconstruct_path_open(came_from, src_idx, tgt_idx) ==
    Tail(ReconstructFrom(came_from, src_idx, tgt_idx))
_reconstruct_path(came_from, src_idx, tgt_idx) == ReconstructFrom(came_from, src_idx, tgt_idx)

\* _path_distance: the sum, over the path's steps u -> v, of the weight of the
\* first slot of u whose target is v
RECURSIVE _path_distance(_, _)
_path_distance(G, path_indices) ==
    IF Len(path_indices) < 2 THEN 0
    ELSE LET u == path_indices[1]
             v == path_indices[2]
             hits == {j \in neighbors(G, u) : G.adj_targets[j] = v}
             j0 == CHOOSE j \in hits : \A k \in hits : j <= k
         IN  G.adj_weights[j0] + _path_distance(G, Tail(path_indices))

\* heap entries are tuples (f, g, counter, node): heappop takes the least
TupleLessLifo(a, b) ==
    \/ a[1] < b[1]
    \/ a[1] = b[1] /\ a[2] < b[2]
    \/ a[1] = b[1] /\ a[2] = b[2] /\ a[3] > b[3]
    \/ a[1] = b[1] /\ a[2] = b[2] /\ a[3] = b[3] /\ a[4] < b[4]
TupleLess(a, b) ==
    \/ a[1] < b[1]
    \/ a[1] = b[1] /\ a[2] < b[2]
    \/ a[1] = b[1] /\ a[2] = b[2] /\ a[3] < b[3]
    \/ a[1] = b[1] /\ a[2] = b[2] /\ a[3] = b[3] /\ a[4] < b[4]

heappop_greatest(open_set) == CHOOSE e \in open_set : \A o \in open_set \ {e} : TupleLess(o, e)
heappop(open_set) == CHOOSE e \in open_set : \A o \in open_set \ {e} : TupleLess(e, o)

\* new_g < g_score[neighbor]
ImprovesFiniteOnly(new_g, old) == old # Inf /\ new_g < old
Improves(new_g, old) == old = Inf \/ new_g < old

\* the relaxation loop `for j in range(len(targets))` from slot j on; cost[j]
\* is the edge cost of slot j and hs the unit of the heuristic
RECURSIVE Relax(_, _, _, _, _, _, _, _, _)
Relax(G, cost, hs, target_lat, target_lon, current, g, j, st) ==
    IF j \notin neighbors(G, current) THEN st
    ELSE LET neighbor == G.adj_targets[j]
             new_g    == g + cost[j]
             h        == hs * _heuristic_idx(G, neighbor, target_lat, target_lon)
         IN  IF Improves(new_g, st.g_score[neighbor])
             THEN Relax(G, cost, hs, target_lat, target_lon, current, g, j + 1,
                        [g_score   |-> [st.g_score EXCEPT ![neighbor] = new_g],
                         came_from |-> [st.came_from EXCEPT ![neighbor] = current],
                         counter   |-> st.counter + 1,
                         open_set  |-> st.open_set
                                         \cup {<<new_g + h, new_g, st.counter + 1, neighbor>>},
                         pushed    |-> Append(st.pushed,
                                              <<new_g + h, new_g, st.counter + 1, neighbor>>)])
             ELSE Relax(G, cost, hs, target_lat, target_lon, current, g, j + 1, st)

\* the loop `while open_set` of shortest_path and of _penalized_astar
RECURSIVE AStarLoop(_, _, _, _, _, _)
AStarLoop(G, cost, hs, src_idx, tgt_idx, st) ==
    IF st.open_set = {}
    THEN [found |-> FALSE, g |-> 0, path_indices |-> <<>>, open_set |-> {}]
    ELSE LET e       == heappop(st.open_set)
             g       == e[2]
             current == e[4]
             st1     == [st EXCEPT !.open_set = @ \ {e}]
         IN  IF current = tgt_idx
             THEN [found |-> TRUE, g |-> g,
                   path_indices |-> _reconstruct_path(st1.came_from, src_idx, tgt_idx),
                   open_set |-> st1.open_set]
             ELSE IF g > st1.g_score[current]
             THEN AStarLoop(G, cost, hs, src_idx, tgt_idx, st1)
             ELSE AStarLoop(G, cost, hs, src_idx, tgt_idx,
                            Relax(G, cost, hs, G.node_lats[tgt_idx], G.node_lons[tgt_idx],
                                  current, g, G.adj_offsets[current], st1))

\* came_from, g_score, counter and open_set as both searches set them up;
\* pushed is the history of the entries pushed, in the order of the pushes
SearchInit(G, src_idx) ==
    [g_score   |-> [i \in DOMAIN G.node_ids |-> IF i = src_idx THEN 0 ELSE Inf],
     came_from |-> [i \in DOMAIN G.node_ids |-> NoParent],
     counter   |-> 0,
     open_set  |-> {<<0, 0, 0, src_idx>>},
     pushed    |-> <<<<0, 0, 0, src_idx>>>>]

OsmPath(G, path_indices) == [i \in 1..Len(path_indices) |-> G.node_ids[path_indices[i]]]

NoPath == [found |-> FALSE, path |-> <<>>, dist |-> 0, left |-> 0]

\* shortest_path: (path of OSM ids, g of the popped target) or (None, None);
\* `left` is the number of entries still queued at the return
shortest_path(G, source_osm, target_osm) ==
    IF source_osm = target_osm
    THEN [found |-> TRUE, path |-> <<source_osm>>, dist |-> 0, left |-> 0]
    ELSE LET src_idx == idx_for_osm_id(G, source_osm)
             tgt_idx == idx_for_osm_id(G, target_osm)
             r == AStarLoop(G, G.adj_weights, 1, src_idx, tgt_idx, SearchInit(G, src_idx))
         IN  IF r.found
             THEN [found |-> TRUE, path |-> OsmPath(G, r.path_indices), dist |-> r.g,
                   left |-> Cardinality(r.open_set)]
             ELSE [NoPath EXCEPT !.left = Cardinality(r.open_set)]

\* the cost _penalized_astar relaxes slot j of node `current` with, in units
\* of 1/SCALE: the weight, times the penalty factor when the edge is walked
EffectiveWeight(G, current, j, walked_edges, penalty_factor) ==
    LET ek == _edge_key_router(G.node_ids[current], G.node_ids[G.adj_targets[j]])
    IN  IF ek \in walked_edges THEN G.adj_weights[j] * penalty_factor
        ELSE G.adj_weights[j] * SCALE

SlotOwner(G, j) == CHOOSE i \in DOMAIN G.node_ids : j \in neighbors(G, i)

\* a search that leaves the walked edges out instead of penalizing them
_penalized_astar_avoiding(G, source_osm, target_osm, walked_edges, penalty_factor) ==
    LET keys == {_edge_key_router(G.node_ids[SlotOwner(G, j)], G.node_ids[G.adj_targets[j]]) :
                    j \in DOMAIN G.adj_targets} \ walked_edges
        nodes == UNION {{k[1], k[2]} : k \in keys}
    IN  IF source_osm = target_osm
        THEN [found |-> TRUE, path |-> <<source_osm>>, dist |-> 0, left |-> 0]
        ELSE IF source_osm \notin nodes \/ target_osm \notin nodes THEN NoPath
        ELSE shortest_path(GraphToCompact(keys), source_osm, target_osm)

\* _penalized_astar: (path, _path_distance of the path) or (None, None)
_penalized_astar(G, source_osm, target_osm, walked_edges, penalty_factor) ==
    IF source_osm = target_osm
    THEN [found |-> TRUE, path |-> <<source_osm>>, dist |-> 0, left |-> 0]
    ELSE LET src_idx == idx_for_osm_id(G, source_osm)
             tgt_idx == idx_for_osm_id(G, target_osm)
             cost == [j \in DOMAIN G.adj_targets |->
                        EffectiveWeight(G, SlotOwner(G, j), j, walked_edges, penalty_factor)]
             r == AStarLoop(G, cost, SCALE, src_idx, tgt_idx, SearchInit(G, src_idx))
         IN  IF r.found
             THEN [found |-> TRUE, path |-> OsmPath(G, r.path_indices),
                   dist |-> _path_distance(G, r.path_indices),
                   left |-> Cardinality(r.open_set)]
             ELSE NoPath

\* path_to_edges
path_to_edges(path) == [i \in 1..(Len(path) - 1) |-> <<path[i], path[i + 1]>>]

\* fractions <<numerator, denominator>>, denominator > 0
FracLess(a, b) == a[1] * b[2] < b[1] * a[2]
FracLeq(a, b)  == a[1] * b[2] <= b[1] * a[2]
FracEq(a, b)   == a[1] * b[2] = b[1] * a[2]

\* _compute_novelty: 1.0 for no edges, else novel / len(edges)
_compute_novelty_directed(edges, walked_edges) ==
    IF Len(edges) = 0 THEN <<1, 1>>
    ELSE <<Cardinality({i \in 1..Len(edges) : edges[i] \notin walked_edges}), Len(edges)>>
_compute_novelty(edges, walked_edges) ==
    IF Len(edges) = 0 THEN <<1, 1>>
    ELSE <<Cardinality({i \in 1..Len(edges) :
                          _edge_key_router(edges[i][1], edges[i][2]) \notin walked_edges}),
           Len(edges)>>

\* (distance - base_distance) / base_distance if base_distance > 0 else 0
OverheadOfNone(distance, base_distance) == <<0, 1>>
OverheadOf(distance, base_distance) ==
    IF base_distance > 0 THEN <<distance - base_distance, base_distance>> ELSE <<0, 1>>

NoneResult == [none |-> TRUE]

\* _build_result (the instructions are not part of this model)
_build_result(path, distance, base_distance, walked_edges) ==
    [none |-> FALSE,
     path |-> path,
     edges |-> path_to_edges(path),
     distance |-> distance,
     shortest_distance |-> base_distance,
     novelty |-> _compute_novelty(path_to_edges(path), walked_edges),
     overhead |-> OverheadOf(distance, base_distance)]

(***************************************************************************)
(* novelty_route, one action per phase step.  nr is the frame of the call: *)
(* its arguments, its locals, the value returned, and two history fields   *)
(* (searches: the penalty factors _penalized_astar was called with, in     *)
(* order; examined: the candidates (path, dist) the bisection and the      *)
(* fallback sweep looked at).                                              *)
(***************************************************************************)
MaxWalked == 1

UpperRounds   == 5
BisectRounds  == 10
LoStart       == 1 * SCALE
HiStartLarge  == 25 * SCALE
HiStart       == 10 * SCALE
HiCapDouble   == 200 * SCALE
HiCap         == 100 * SCALE
FallbackPenalties == <<(3 * SCALE) \div 2, 2 * SCALE, 3 * SCALE, 5 * SCALE, 8 * SCALE>>

\* (min_novelty, max_overhead): the defaults, a generous limit, and a
\* min_novelty no route can reach
Limits == {<<<<3, 10>>, <<1, 4>>>>, <<<<1, 2>>, <<3, 2>>>>, <<<<3, 2>>, <<1, 4>>>>}

IdleFrame ==
    [pc |-> "idle", source |-> 0, target |-> 0, walked_edges |-> {},
     min_novelty |-> <<0, 1>>, max_overhead |-> <<0, 1>>,
     base |-> NoPath, base_novel |-> <<1, 1>>,
     best_result |-> NoneResult, best_novelty |-> <<1, 1>>,
     lo_penalty |-> 0, hi_penalty |-> 0, it |-> 0,
     result |-> NoneResult, searches |-> <<>>, examined |-> {}]

GraphKeys(G) ==
    {_edge_key_router(G.node_ids[SlotOwner(G, j)], G.node_ids[G.adj_targets[j]]) :
        j \in DOMAIN G.adj_targets}

NodeIds(G) == {G.node_ids[i] : i \in DOMAIN G.node_ids}

\* the store and its handle play no part in a routing run
StoreIdle == UNCHANGED histVars

\* lines 136-140: return the baseline at once when it is novel enough, or
\* when nothing has been walked
EarlyReturnEmptyOnly(base_novel, min_novelty, walked_edges) == walked_edges = {}
EarlyReturnNoveltyOnly(base_novel, min_novelty, walked_edges) ==
    FracLeq(min_novelty, base_novel)
EarlyReturn(base_novel, min_novelty, walked_edges) ==
    FracLeq(min_novelty, base_novel) \/ walked_edges = {}

\* lines 128-147: the baseline search, the early returns, the locals of phase 2
NoveltyRouteEnter(source, target, walked_edges, min_novelty, max_overhead) ==
    /\ nr.pc = "idle"
    /\ source \in NodeIds(graph)
    /\ target \in NodeIds(graph)
    /\ \E base \in {shortest_path(graph, source, target)} :
       LET call  == [IdleFrame EXCEPT !.source = source, !.target = target,
                                      !.walked_edges = walked_edges,
                                      !.min_novelty = min_novelty,
                                      !.max_overhead = max_overhead,
                                      !.base = base]
           base_novel == _compute_novelty(path_to_edges(base.path), walked_edges)
           baseline   == _build_result(base.path, base.dist, base.dist, walked_edges)
       IN  nr' = IF ~base.found
                 THEN [call EXCEPT !.pc = "done", !.result = NoneResult]
                 ELSE IF EarlyReturn(base_novel, min_novelty, walked_edges)
                 THEN [call EXCEPT !.pc = "done", !.base_novel = base_novel,
                                   !.result = baseline]
                 ELSE [call EXCEPT !.pc = "upper", !.base_novel = base_novel,
                                   !.best_novelty = base_novel,
                                   !.lo_penalty = LoStart, !.hi_penalty = HiStart]
    /\ UNCHANGED graph
    /\ StoreIdle /\ UNCHANGED otherVars

\* lines 149-160: one round of the search for an upper penalty
UpperStep ==
    /\ nr.pc = "upper"
    /\ \E r \in {_penalized_astar(graph, nr.source, nr.target, nr.walked_edges, nr.hi_penalty)} :
       LET novelty == _compute_novelty(path_to_edges(r.path), nr.walked_edges)
           f  == [nr EXCEPT !.searches = Append(@, nr.hi_penalty)]
           leave(g) == [g EXCEPT !.pc = "bisect", !.it = 0]
           again(g) == IF nr.it + 1 = UpperRounds THEN leave(g)
                       ELSE [g EXCEPT !.it = nr.it + 1]
       IN  nr' = IF ~r.found
                 THEN again([f EXCEPT !.hi_penalty = (nr.lo_penalty + nr.hi_penalty) \div 2])
                 ELSE IF FracLeq(nr.min_novelty, novelty)
                 THEN leave(f)
                 ELSE IF nr.hi_penalty * 2 > HiCap
                 THEN leave([f EXCEPT !.hi_penalty = nr.hi_penalty * 2])
                 ELSE again([f EXCEPT !.hi_penalty = nr.hi_penalty * 2])
    /\ UNCHANGED graph
    /\ StoreIdle /\ UNCHANGED otherVars

\* lines 174-176 and 194-196: keep the candidate when it is within the
\* overhead limit and strictly more novel than the best so far
KeepAnyOverhead(f, path, dist) ==
    LET novelty  == _compute_novelty(path_to_edges(path), f.walked_edges)
    IN  IF FracLess(f.best_novelty, novelty)
        THEN [f EXCEPT !.best_novelty = novelty,
                       !.best_result = _build_result(path, dist, f.base.dist, f.walked_edges)]
        ELSE f
KeepIfNotWorse(f, path, dist) ==
    LET novelty  == _compute_novelty(path_to_edges(path), f.walked_edges)
        overhead == OverheadOf(dist, f.base.dist)
    IN  IF FracLeq(overhead, f.max_overhead) /\ FracLeq(f.best_novelty, novelty)
        THEN [f EXCEPT !.best_novelty = novelty,
                       !.best_result = _build_result(path, dist, f.base.dist, f.walked_edges)]
        ELSE f
KeepIfBetter(f, path, dist) ==
    LET novelty  == _compute_novelty(path_to_edges(path), f.walked_edges)
        overhead == OverheadOf(dist, f.base.dist)
    IN  IF FracLeq(overhead, f.max_overhead) /\ FracLess(f.best_novelty, novelty)
        THEN [f EXCEPT !.best_novelty = novelty,
                       !.best_result = _build_result(path, dist, f.base.dist, f.walked_edges)]
        ELSE f

\* line 163: the midpoint of the bracket
mid_penalty_low(lo, hi) == (3 * lo + hi) \div 4
mid_penalty(lo, hi) == (lo + hi) \div 2

\* lines 162-183: one round of the bisection
BisectStep ==
    /\ nr.pc = "bisect"
    /\ nr.it < BisectRounds
    /\ \E r \in {_penalized_astar(graph, nr.source, nr.target, nr.walked_edges,
                                  mid_penalty(nr.lo_penalty, nr.hi_penalty))} :
       LET mid == mid_penalty(nr.lo_penalty, nr.hi_penalty)
           novelty  == _compute_novelty(path_to_edges(r.path), nr.walked_edges)
           overhead == OverheadOf(r.dist, nr.base.dist)
           f == [nr EXCEPT !.searches = Append(@, mid), !.it = nr.it + 1]
           k == KeepIfBetter([f EXCEPT !.examined = @ \cup {<<r.path, r.dist>>}],
                             r.path, r.dist)
       IN  nr' = IF ~r.found
                 THEN [f EXCEPT !.hi_penalty = mid]
                 ELSE IF FracLess(novelty, nr.min_novelty)
                 THEN [k EXCEPT !.lo_penalty = mid]
                 ELSE IF FracLess(nr.max_overhead, overhead)
                 THEN [k EXCEPT !.hi_penalty = mid]
                 ELSE [k EXCEPT !.lo_penalty = mid]
    /\ UNCHANGED graph
    /\ StoreIdle /\ UNCHANGED otherVars

\* line 185: the sweep runs when the bisection kept nothing, or kept a route
\* below min_novelty
FallbackTest ==
    /\ nr.pc = "bisect"
    /\ nr.it = BisectRounds
    /\ nr' = IF nr.best_result = NoneResult
                \/ FracLess(nr.best_result.novelty, nr.min_novelty)
             THEN [nr EXCEPT !.pc = "fallback", !.it = 0]
             ELSE [nr EXCEPT !.pc = "finish"]
    /\ UNCHANGED graph
    /\ StoreIdle /\ UNCHANGED otherVars

\* lines 186-196: one penalty of the fallback sweep
FallbackStep ==
    /\ nr.pc = "fallback"
    /\ \E r \in {_penalized_astar(graph, nr.source, nr.target, nr.walked_edges,
                                  FallbackPenalties[nr.it + 1])} :
       LET penalty == FallbackPenalties[nr.it + 1]
           f == [nr EXCEPT !.searches = Append(@, penalty),
                           !.it = nr.it + 1,
                           !.pc = IF nr.it + 1 = Len(FallbackPenalties)
                                  THEN "finish" ELSE "fallback"]
       IN  nr' = IF ~r.found THEN f
                 ELSE KeepIfBetter([f EXCEPT !.examined = @ \cup {<<r.path, r.dist>>}],
                                   r.path, r.dist)
    /\ UNCHANGED graph
    /\ StoreIdle /\ UNCHANGED otherVars

\* lines 198-201: the baseline when nothing was kept
Finish ==
    /\ nr.pc = "finish"
    /\ nr' = [nr EXCEPT !.pc = "done",
                        !.result = IF nr.best_result = NoneResult
                                   THEN _build_result(nr.base.path, nr.base.dist,
                                                      nr.base.dist, nr.walked_edges)
                                   ELSE nr.best_result]
    /\ UNCHANGED graph
    /\ StoreIdle /\ UNCHANGED otherVars

\* a graph built from any non-empty set of ways between the nodes; no call yet
RouteInit ==
    /\ \E E \in (SUBSET AllKeys) \ {{}} : graph = GraphToCompact(E)
    /\ nr = IdleFrame
    /\ StoreInit(EmptyTable)
    /\ twice = 0
    /\ RestUnused

WalkedSets(G) == {W \in SUBSET GraphKeys(G) : Cardinality(W) <= MaxWalked}

\* a call of novelty_route with any arguments
NoveltyRouteCall ==
    \E source, target \in NodeIds(graph), W \in WalkedSets(graph) :
        \E lim \in Limits : NoveltyRouteEnter(source, target, W, lim[1], lim[2])

RouteNext ==
    \/ NoveltyRouteCall
    \/ UpperStep
    \/ BisectStep
    \/ FallbackTest
    \/ FallbackStep
    \/ Finish

SpecRoute == RouteInit /\ [][RouteNext]_vars

(***************************************************************************)
(* GRAPH BUILDER (graph_builder.py): build_graph, _graph_to_compact,       *)
(* _save_graph, _load_graph.  The two osmium passes deliver the walkable   *)
(* ways (node refs, name, highway) and the coordinates of the nodes inside *)
(* the bounding box; node 7 below lies outside it.                         *)
(***************************************************************************)
MaxWays == 3       \* ways in the stream

WayCatalogue ==
    {[node_ids |-> <<1, 2, 3>>, name |-> "A St", highway |-> "residential"],
     [node_ids |-> <<3, 2>>,    name |-> "B St", highway |-> "footway"],
     [node_ids |-> <<1, 1, 2>>, name |-> "",     highway |-> "footway"],
     [node_ids |-> <<2, 5>>,    name |-> "",     highway |-> "steps"],
     [node_ids |-> <<1, 7, 2>>, name |-> "C St", highway |-> "residential"],
     [node_ids |-> <<3, 1, 3>>, name |-> "C St", highway |-> "path"],
     [node_ids |-> <<5>>,       name |-> "B St", highway |-> "path"],
     [node_ids |-> <<2, 1>>,    name |-> "",     highway |-> "path"]}


\* sorted(name_set - {""}) and sorted(highway_set - {""}) list their strings
\* in this order
NameOrder    == <<"A St", "B St", "C St">>
HighwayOrder == <<"footway", "path", "residential", "steps", "tertiary">>

\* the members of `set` in the order of `order`
RECURSIVE SortedStrings(_, _)
SortedStrings(order, set) ==
    IF order = <<>> THEN <<>>
    ELSE (IF Head(order) \in set THEN <<Head(order)>> ELSE <<>>)
            \o SortedStrings(Tail(order), set)

IndexOf(list, x) == (CHOOSE i \in 1..Len(list) : list[i] = x) - 1

\* the first segment at or after segment si of way wi, or the end of the stream
RECURSIVE NextSegment(_, _, _)
NextSegment(ways, wi, si) ==
    IF wi > Len(ways) THEN [wi |-> wi, si |-> 1]
    ELSE IF si + 1 <= Len(ways[wi].node_ids) THEN [wi |-> wi, si |-> si]
    ELSE NextSegment(ways, wi + 1, 1)

NoFile == [exists |-> FALSE]

\* `if dist < nx_graph[n1][n2]["weight"]`
ReplacesOnTie(dist, stored) == dist <= stored
Replaces(dist, stored) == dist < stored

\* lines 410-430 for the segment the frame points at: the nx graph after it
\* (nodes; edges as a map from the undirected pair to its attributes), and the
\* occurrence noted in `seen`, in stream order
AddSegment(b) ==
    LET w  == b.ways[b.wi]
        n1 == w.node_ids[b.si]
        n2 == w.node_ids[b.si + 1]
        dist == haversine(Coord[n1][1], Coord[n1][2], Coord[n2][1], Coord[n2][2])
        key  == <<Min2(n1, n2), Max2(n1, n2)>>
        data == [weight |-> dist, name |-> w.name, highway |-> w.highway]
    IN  IF n1 \in DOMAIN Coord /\ n2 \in DOMAIN Coord
        THEN [b EXCEPT !.nodes = @ \cup {n1, n2},
                       !.edges = IF key \in DOMAIN b.edges
                                 THEN (IF Replaces(dist, b.edges[key].weight)
                                       THEN [b.edges EXCEPT ![key] = data]
                                       ELSE b.edges)
                                 ELSE (key :> data) @@ b.edges,
                       !.seen = Append(@, [key |-> key, data |-> data])]
        ELSE b

RECURSIVE Flatten(_)
Flatten(ss) == IF ss = <<>> THEN <<>> ELSE Head(ss) \o Flatten(Tail(ss))

ZeroBased(seq) == [i \in 0..(Len(seq) - 1) |-> seq[i + 1]]

\* what an array of dtype uint16 / uint8 keeps of an index assigned to it
\* (NumPy 1.x; NumPy 2 raises OverflowError for an index out of range)
uint16(x) == x % (2 ^ 16)
uint8(x)  == x % (2 ^ 8)

\* _graph_to_compact: nodes sorted by OSM id; the string tables with "" at
\* index 0; every edge of G.edges() written once at the cursor of each of its
\* two ends (so a self-loop is written twice at its one node); each node's
\* slice then sorted by target with its weight and indices carried along.
\* The order in which G.edges() yields the edges does not show in the result.
_graph_to_compact(nodes, edges) ==
    LET ids    == SortedIds(nodes)
        N      == Len(ids)
        idx(o) == (CHOOSE i \in 1..N : ids[i] = o) - 1
        name_list    == <<"">> \o SortedStrings(NameOrder,
                                   {edges[k].name : k \in DOMAIN edges} \ {""})
        highway_list == <<"">> \o SortedStrings(HighwayOrder,
                                   {edges[k].highway : k \in DOMAIN edges} \ {""})
        slot(i, t) ==
            LET key == <<Min2(ids[i + 1], ids[t + 1]), Max2(ids[i + 1], ids[t + 1])>>
                one == [target |-> t,
                        weight |-> edges[key].weight,
                        ni |-> uint16(IndexOf(name_list, edges[key].name)),
                        hi |-> uint8(IndexOf(highway_list, edges[key].highway))]
            IN  IF key \notin DOMAIN edges THEN <<>>
                ELSE IF t = i THEN <<one, one>>
                ELSE <<one>>
        slice(i) == Flatten([t1 \in 1..N |-> slot(i, t1 - 1)])
        degrees  == [i \in 0..(N - 1) |-> Len(slice(i))]
        slots    == Flatten([i1 \in 1..N |-> slice(i1 - 1)])
    IN  [exists      |-> TRUE,
         node_ids    |-> ZeroBased(ids),
         node_lats   |-> [i \in 0..(N - 1) |-> Coord[ids[i + 1]][1]],
         node_lons   |-> [i \in 0..(N - 1) |-> Coord[ids[i + 1]][2]],
         adj_offsets |-> [i \in 0..N |-> SumTo(degrees, i)],
         adj_targets |-> ZeroBased([j \in 1..Len(slots) |-> slots[j].target]),
         adj_weights |-> ZeroBased([j \in 1..Len(slots) |-> slots[j].weight]),
         edge_name_indices    |-> ZeroBased([j \in 1..Len(slots) |-> slots[j].ni]),
         edge_highway_indices |-> ZeroBased([j \in 1..Len(slots) |-> slots[j].hi]),
         name_table    |-> name_list,
         highway_table |-> highway_list]

\* _load_graph / CompactGraph.__init__: the arrays of the file, as they are;
\* a name or highway field the file lacks is None (no such field here)
CompactGraph(file) == [f \in DOMAIN file \ {"exists"} |-> file[f]]

BuildFrame(ways) ==
    [pc |-> "enter", ways |-> ways, wi |-> 1, si |-> 1,
     nodes |-> {}, edges |-> EmptyTable, seen |-> <<>>]


\* lines 388-406: a cached graph file is loaded; otherwise the ways are read
BuildEnter ==
    /\ bd.pc = "enter"
    /\ bd' = IF npz.exists THEN [bd EXCEPT !.pc = "load"]
             ELSE LET p == NextSegment(bd.ways, 1, 1)
                  IN  [bd EXCEPT !.wi = p.wi, !.si = p.si,
                                 !.pc = IF p.wi > Len(bd.ways) THEN "save" ELSE "ways"]
    /\ UNCHANGED <<graph, npz>>
    /\ UNCHANGED <<histVars, nr, turn, gi, cli, nn, sp>>

\* lines 409-430: one segment (n_i, n_i+1) of one way
BuildSegment ==
    /\ bd.pc = "ways"
    /\ LET b == AddSegment(bd)
           p == NextSegment(bd.ways, bd.wi, bd.si + 1)
       IN  bd' = [b EXCEPT !.wi = p.wi, !.si = p.si,
                           !.pc = IF p.wi > Len(bd.ways) THEN "save" ELSE "ways"]
    /\ UNCHANGED <<graph, npz>>
    /\ UNCHANGED <<histVars, nr, turn, gi, cli, nn, sp>>

\* lines 434-435 and _save_graph: convert and write the file
SaveGraph ==
    /\ bd.pc = "save"
    /\ npz' = _graph_to_compact(bd.nodes, bd.edges)
    /\ bd' = [bd EXCEPT !.pc = "load"]
    /\ UNCHANGED graph
    /\ UNCHANGED <<histVars, nr, turn, gi, cli, nn, sp>>

\* _load_graph: the CompactGraph of whatever the file holds
LoadGraph ==
    /\ bd.pc = "load"
    /\ graph' = CompactGraph(npz)
    /\ bd' = [bd EXCEPT !.pc = "done"]
    /\ UNCHANGED npz
    /\ UNCHANGED <<histVars, nr, turn, gi, cli, nn, sp>>

\* no graph file yet, any stream of ways
BuildInit ==
    /\ \E ways \in SeqsUpTo(WayCatalogue, MaxWays) : bd = BuildFrame(ways)
    /\ npz = NoFile
    /\ graph = 0 /\ nr = 0
    /\ StoreInit(EmptyTable) /\ twice = 0
    /\ turn = 0 /\ gi = 0 /\ cli = 0 /\ nn = 0 /\ sp = 0

BuildNext == BuildEnter \/ BuildSegment \/ SaveGraph \/ LoadGraph

SpecBuild == BuildInit /\ [][BuildNext]_vars

(***************************************************************************)
(* TURN AT A STEP BOUNDARY (router.py generate_instructions, lines 433-443,*)
(* and _classify_turn).  Bearings and angles are whole degrees.            *)
(***************************************************************************)
BearingStep == 5   \* bearings sampled at the multiples of it and next to them

Bearings == {b \in 0..359 : b % BearingStep \in {0, 1, BearingStep - 1}}

\* `while angle > 180: angle -= 360`
NormalizeDownNever(angle) == angle
RECURSIVE NormalizeDown(_)
NormalizeDown(angle) ==
    IF angle > 180 THEN NormalizeDown(angle - 360) ELSE angle

\* `while angle < -180: angle += 360`
RECURSIVE NormalizeUp(_)
NormalizeUp(angle) ==
    IF angle < 0 - 180 THEN NormalizeUp(angle + 360) ELSE angle

\* angle = this_entry - prev_exit, then the two loops
turn_angle_of(prev_exit, this_entry) ==
    NormalizeUp(NormalizeDown(this_entry - prev_exit))

abs(x) == IF x < 0 THEN 0 - x ELSE x

_classify_turn_inclusive(angle) ==
    IF abs(angle) <= 15 THEN "straight"
    ELSE IF abs(angle) < 45
         THEN (IF angle < 0 THEN "slight_left" ELSE "slight_right")
    ELSE IF abs(angle) < 120
         THEN (IF angle < 0 THEN "left" ELSE "right")
    ELSE IF abs(angle) < 160
         THEN (IF angle < 0 THEN "sharp_left" ELSE "sharp_right")
    ELSE "u_turn"
_classify_turn(angle) ==
    IF abs(angle) < 15 THEN "straight"
    ELSE IF abs(angle) < 45
         THEN (IF angle < 0 THEN "slight_left" ELSE "slight_right")
    ELSE IF abs(angle) < 120
         THEN (IF angle < 0 THEN "left" ELSE "right")
    ELSE IF abs(angle) < 160
         THEN (IF angle < 0 THEN "sharp_left" ELSE "sharp_right")
    ELSE "u_turn"

\* a boundary between two groups, before its step is made
TurnInit ==
    /\ \E prev_exit \in Bearings, this_entry \in Bearings :
           turn = [pc |-> "boundary", prev_exit |-> prev_exit,
                   this_entry |-> this_entry,
                   turn_angle |-> 0, turn_direction |-> ""]
    /\ StoreInit(EmptyTable) /\ twice = 0 /\ graph = 0 /\ nr = 0
    /\ bd = 0 /\ npz = 0 /\ gi = 0 /\ cli = 0 /\ nn = 0 /\ sp = 0

\* lines 434-443: the angle and the class of the step
StepBoundary ==
    /\ turn.pc = "boundary"
    /\ \E angle \in {turn_angle_of(turn.prev_exit, turn.this_entry)} :
           turn' = [turn EXCEPT !.pc = "step",
                                !.turn_angle = angle,
                                !.turn_direction = _classify_turn(angle)]
    /\ UNCHANGED <<histVars, routeVars, bd, npz, gi, cli, nn, sp>>


SpecTurn == TurnInit /\ [][StepBoundary]_vars

(***************************************************************************)
(* TURN-BY-TURN INSTRUCTIONS (router.py generate_instructions).  None and  *)
(* the empty string, both false in Python, are "" here.                    *)
(***************************************************************************)
MaxPathEdges == 3      \* edges of the path handed to generate_instructions

\* the streets of the graphs instructions are generated on, and what a street
\* can be tagged with
Ring == <<<<1, 2>>, <<2, 5>>, <<3, 5>>, <<1, 3>>>>
Tags == {[name |-> "A St", highway |-> "residential"],
         [name |-> "",     highway |-> "footway"],
         [name |-> "",     highway |-> "residential"],
         [name |-> "",     highway |-> "tertiary"]}

\* the graph file build_graph writes for the ring under a tagging
RingFile(tags) ==
    _graph_to_compact({1, 2, 3, 5},
        [k \in {Ring[n] : n \in 1..4} |->
            LET n == CHOOSE n \in 1..4 : Ring[n] = k
                c == Coord
            IN  [weight  |-> haversine(c[k[1]][1], c[k[1]][2], c[k[2]][1], c[k[2]][2]),
                 name    |-> tags[n].name,
                 highway |-> tags[n].highway]])
\* the graphs loaded from these files, and from a file in the old format
\* without name data
InstrGraphs ==
    LET files == {RingFile(tags) : tags \in [1..4 -> Tags]}
    IN  {CompactGraph(file) : file \in files}
            \cup {CompactGraph([f \in DOMAIN file \ {"edge_name_indices", "edge_highway_indices",
                                                      "name_table", "highway_table"}
                                   |-> file[f]]) :
                      file \in {RingFile([n \in 1..4 |-> CHOOSE t \in Tags : t.name # ""])}}

\* walks along the streets of the ring
InstrPaths ==
    {p \in SeqsUpTo({1, 2, 3, 5}, MaxPathEdges + 1) :
        /\ p # <<>>
        /\ \A n \in 1..(Len(p) - 1) :
               <<Min2(p[n], p[n + 1]), Max2(p[n], p[n + 1])>>
                   \in {Ring[m] : m \in 1..4}}

\* graph_builder.bearing in whole degrees, for displacements along an axis or
\* a diagonal of the grid
bearing(lat1, lon1, lat2, lon2) ==
    LET dlat == lat2 - lat1
        dlon == lon2 - lon1
    IN  CASE dlon = 0 /\ dlat >= 0 -> 0
          [] dlon = 0 /\ dlat < 0  -> 180
          [] dlat = 0 /\ dlon > 0  -> 90
          [] dlat = 0 /\ dlon < 0  -> 270
          [] dlat > 0 /\ dlon = dlat     -> 45
          [] dlat < 0 /\ dlon = 0 - dlat -> 135
          [] dlat < 0 /\ dlon = dlat     -> 225
          [] dlat > 0 /\ dlon = 0 - dlat -> 315

has_name_data(G) == {"edge_name_indices", "name_table"} \subseteq DOMAIN G

\* CompactGraph.edge_name / edge_highway: the string of the first slot of u
\* that targets v
edge_name(G, u_idx, v_idx) ==
    LET js == {j \in neighbors(G, u_idx) : G.adj_targets[j] = v_idx}
    IN  IF ~has_name_data(G) \/ js = {} THEN ""
        ELSE G.name_table[G.edge_name_indices[CHOOSE j \in js : \A k \in js : j <= k] + 1]
edge_highway(G, u_idx, v_idx) ==
    LET js == {j \in neighbors(G, u_idx) : G.adj_targets[j] = v_idx}
    IN  IF ~({"edge_highway_indices", "highway_table"} \subseteq DOMAIN G) \/ js = {}
        THEN ""
        ELSE G.highway_table[G.edge_highway_indices[CHOOSE j \in js : \A k \in js : j <= k] + 1]

\* _HIGHWAY_DESCRIPTIONS.get(highway, "road")
_HIGHWAY_DESCRIPTIONS(highway) ==
    CASE highway = "footway"    -> "footpath"
      [] highway = "path"       -> "path"
      [] highway = "pedestrian" -> "pedestrian way"
      [] highway = "steps"      -> "steps"
      [] highway = "cycleway"   -> "cycleway"
      [] highway = "service"    -> "service road"
      [] highway = "track"      -> "track"
      [] OTHER                  -> "road"

\* the street name if there is one, else the description of the highway
effective_name_of(name, highway) ==
    IF name # "" THEN name
    ELSE IF highway # "" THEN _HIGHWAY_DESCRIPTIONS(highway)
    ELSE "road"

\* _compass_direction: int((b + 22.5) % 360 / 45) % 8
_compass_direction(bearing_deg) ==
    <<"north", "northeast", "east", "southeast",
      "south", "southwest", "west", "northwest">>
        [((((2 * bearing_deg + 45) % 720) \div 90) % 8) + 1]

_TURN_PREFIXES(turn_direction) ==
    CASE turn_direction = "start"        -> "Head"
      [] turn_direction = "straight"     -> "Continue"
      [] turn_direction = "slight_left"  -> "Turn slight left"
      [] turn_direction = "slight_right" -> "Turn slight right"
      [] turn_direction = "left"         -> "Turn left"
      [] turn_direction = "right"        -> "Turn right"
      [] turn_direction = "sharp_left"   -> "Turn sharp left"
      [] turn_direction = "sharp_right"  -> "Turn sharp right"
      [] turn_direction = "u_turn"       -> "Make a U-turn"
      [] turn_direction = "arrive"       -> "Arrive"

\* lines 368-396: the edge records of the path
InstrEdges(G, indices) ==
    [i \in 1..(Len(indices) - 1) |->
        LET u_idx == indices[i]
            v_idx == indices[i + 1]
            name    == edge_name(G, u_idx, v_idx)
            highway == edge_highway(G, u_idx, v_idx)
        IN  [bearing  |-> bearing(G.node_lats[u_idx], G.node_lons[u_idx],
                                  G.node_lats[v_idx], G.node_lons[v_idx]),
             distance |-> haversine(G.node_lats[u_idx], G.node_lons[u_idx],
                                    G.node_lats[v_idx], G.node_lons[v_idx]),
             name |-> name, highway |-> highway,
             effective_name |-> effective_name_of(name, highway),
             start_idx |-> i - 1]]

\* the inner while loop: the end of the group that starts at group_start
GroupEndNext(edges, group_start, group_end) == group_end
RECURSIVE GroupEnd(_, _, _)
GroupEnd(edges, group_start, group_end) ==
    IF group_end <= Len(edges)
       /\ edges[group_end].effective_name = edges[group_start].effective_name
    THEN GroupEnd(edges, group_start, group_end + 1)
    ELSE group_end

RECURSIVE SumDistances(_, _, _)
SumDistances(edges, from, to) ==
    IF from >= to THEN 0
    ELSE edges[from].distance + SumDistances(edges, from + 1, to)


\* lines 359-399: the two early returns, the indices and the edge records
InstrEnter ==
    /\ gi.pc = "enter"
    /\ IF ~has_name_data(graph) \/ Len(gi.path) < 2
       THEN gi' = [gi EXCEPT !.pc = "none"]
       ELSE \E indices \in {[n \in 1..Len(gi.path) |-> idx_for_osm_id(graph, gi.path[n])]} :
                gi' = [gi EXCEPT !.pc = "group",
                                 !.indices = indices,
                                 !.edges = InstrEdges(graph, indices),
                                 !.group_start = 1]
    /\ UNCHANGED graph
    /\ UNCHANGED <<histVars, nr, bd, npz, turn, cli, nn, sp>>

\* lines 404-419: one turn of the grouping loop (positions count from 1)
GroupStep ==
    /\ gi.pc = "group"
    /\ gi.group_start <= Len(gi.edges)
    /\ \E group_end \in {GroupEnd(gi.edges, gi.group_start, gi.group_start + 1)} :
           gi' = [gi EXCEPT
                    !.groups = Append(@,
                        [effective_name |-> gi.edges[gi.group_start].effective_name,
                         street_name    |-> gi.edges[gi.group_start].name,
                         total_distance |-> SumDistances(gi.edges, gi.group_start, group_end),
                         entry_bearing  |-> gi.edges[gi.group_start].bearing,
                         exit_bearing   |-> gi.edges[group_end - 1].bearing,
                         start_idx      |-> gi.edges[gi.group_start].start_idx]),
                    !.group_start = group_end]
    /\ UNCHANGED graph
    /\ UNCHANGED <<histVars, nr, bd, npz, turn, cli, nn, sp>>

GroupsDone ==
    /\ gi.pc = "group"
    /\ gi.group_start > Len(gi.edges)
    /\ gi' = [gi EXCEPT !.pc = "steps", !.i = 1]
    /\ UNCHANGED graph
    /\ UNCHANGED <<histVars, nr, bd, npz, turn, cli, nn, sp>>

\* lines 423-460: the step of group i (the first group is i = 1 here)
MakeStep ==
    /\ gi.pc = "steps"
    /\ gi.i <= Len(gi.groups)
    /\ LET group    == gi.groups[gi.i]
           node_idx == gi.indices[group.start_idx + 1]
           angle    == IF gi.i = 1 THEN 0
                       ELSE turn_angle_of(gi.groups[gi.i - 1].exit_bearing,
                                          group.entry_bearing)
           turn_direction == IF gi.i = 1 THEN "start" ELSE _classify_turn(angle)
           instruction ==
               IF gi.i = 1
               THEN <<"Head", _compass_direction(group.entry_bearing),
                      "on", group.effective_name>>
               ELSE <<_TURN_PREFIXES(turn_direction),
                      IF turn_direction = "straight" THEN "on" ELSE "onto",
                      group.effective_name>>
       IN  gi' = [gi EXCEPT
                    !.steps = Append(@,
                        [instruction        |-> instruction,
                         street_name        |-> group.street_name,
                         street_description |-> group.effective_name,
                         distance           |-> group.total_distance,
                         turn_direction     |-> turn_direction,
                         turn_angle         |-> angle,
                         start_lat          |-> graph.node_lats[node_idx],
                         start_lon          |-> graph.node_lons[node_idx]]),
                    !.i = @ + 1]
    /\ UNCHANGED graph
    /\ UNCHANGED <<histVars, nr, bd, npz, turn, cli, nn, sp>>

\* lines 462-475: the final step, and the return
Arrive ==
    /\ gi.pc = "steps"
    /\ gi.i > Len(gi.groups)
    /\ LET last_idx == gi.indices[Len(gi.indices)]
       IN  gi' = [gi EXCEPT
                    !.steps = Append(@,
                        [instruction        |-> <<"Arrive at destination">>,
                         street_name        |-> "",
                         street_description |-> "",
                         distance           |-> 0,
                         turn_direction     |-> "arrive",
                         turn_angle         |-> 0,
                         start_lat          |-> graph.node_lats[last_idx],
                         start_lon          |-> graph.node_lons[last_idx]]),
                    !.pc = "returned"]
    /\ UNCHANGED graph
    /\ UNCHANGED <<histVars, nr, bd, npz, turn, cli, nn, sp>>

InstrInit ==
    /\ graph \in InstrGraphs
    /\ \E path \in InstrPaths :
           gi = [pc |-> "enter", path |-> path, indices |-> <<>>, edges |-> <<>>,
                 groups |-> <<>>, group_start |-> 1, steps |-> <<>>, i |-> 1]
    /\ nr = 0
    /\ StoreInit(EmptyTable) /\ twice = 0
    /\ bd = 0 /\ npz = 0 /\ turn = 0 /\ cli = 0 /\ nn = 0 /\ sp = 0

InstrNext == InstrEnter \/ GroupStep \/ GroupsDone \/ MakeStep \/ Arrive

SpecInstr == InstrInit /\ [][InstrNext]_vars

(***************************************************************************)
(* COMMAND LINE (cli.py): route, record and stats, each a run of the        *)
(* process on handle 1 of the store.  cli.pc names the history call the     *)
(* command has come to; the command's own code runs between the calls.      *)
(***************************************************************************)
\* the invocations: for route, whether the router finds a route, the edges of
\* the route, --output (none, a writable or an unwritable path) and --record;
\* for record, the "edges" list of the route file
CliCommands ==
    {[cmd |-> "route", edges |-> E, found |-> f, output |-> o, record |-> r] :
        E \in NodePairLists \ {<<>>}, f \in BOOLEAN,
        o \in {"", "writable", "unwritable"}, r \in BOOLEAN}
    \cup {[cmd |-> "record", edges |-> E, found |-> TRUE, output |-> "", record |-> TRUE] :
             E \in RouteEdgeLists}
    \cup {[cmd |-> "stats", edges |-> <<>>, found |-> TRUE, output |-> "", record |-> FALSE]}


\* history = WalkHistory()
CliOpen == cli.pc = "open" /\ Open(1)

\* walked = history.get_walked_edges()
CliGetWalkedEdges ==
    cli.pc = "get_walked_edges" /\ ret[1].op = "open" /\ GetWalkedEdges(1)

\* history.record_walk(result["edges"]) / history.record_walk(edges)
CliRecordWalk ==
    cli.pc = "record_walk" /\ ret[1].op # "record_walk" /\ RecordWalkBegin(1, cli.edges)

\* s = history.stats()
CliStats == cli.pc = "stats" /\ ret[1].op = "open" /\ Stats(1)

\* history.close()
CliClose == cli.pc = "close" /\ Close(1)

\* route, lines 62-145, between its history calls: the routing, the no-route
\* exit (which closes first), the display, the output file (open() raises
\* OSError on an unwritable path and the exception leaves route), --record
CliRoute ==
    /\ cli.cmd = "route" /\ hpc[1] = "idle"
    /\ \/ /\ cli.pc = "open" /\ ret[1].op = "open"
          /\ cli' = [cli EXCEPT !.pc = "get_walked_edges"]
       \/ /\ cli.pc = "get_walked_edges" /\ ret[1].op = "get_walked_edges"
          /\ cli' = IF ~cli.found
                    THEN [cli EXCEPT !.pc = "close", !.status = "no_route"]
                    ELSE IF cli.output = "unwritable"
                    THEN [cli EXCEPT !.pc = "exit", !.status = "exception"]
                    ELSE IF cli.record THEN [cli EXCEPT !.pc = "record_walk"]
                    ELSE [cli EXCEPT !.pc = "close"]
       \/ /\ cli.pc = "record_walk" /\ ret[1].op = "record_walk"
          /\ cli' = IF ret[1].val = 1
                    THEN [cli EXCEPT !.pc = "exit", !.status = "exception"]
                    ELSE [cli EXCEPT !.pc = "close"]
       \/ /\ cli.pc = "close" /\ ret[1].op = "close"
          /\ cli' = [cli EXCEPT !.pc = "exit",
                                !.status = IF @ = "no_route" THEN @ ELSE "ok"]
    /\ UNCHANGED histVars
    /\ UNCHANGED <<twice, graph, nr, bd, npz, turn, gi, nn, sp>>

\* record, lines 152-159: an exception of record_walk leaves record
CliRecord ==
    /\ cli.cmd = "record" /\ hpc[1] = "idle"
    /\ \/ /\ cli.pc = "open" /\ ret[1].op = "open"
          /\ cli' = [cli EXCEPT !.pc = "record_walk"]
       \/ /\ cli.pc = "record_walk" /\ ret[1].op = "record_walk"
          /\ cli' = IF ret[1].val = 1
                    THEN [cli EXCEPT !.pc = "exit", !.status = "exception"]
                    ELSE [cli EXCEPT !.pc = "close"]
       \/ /\ cli.pc = "close" /\ ret[1].op = "close"
          /\ cli' = [cli EXCEPT !.pc = "exit", !.status = "ok"]
    /\ UNCHANGED histVars
    /\ UNCHANGED <<twice, graph, nr, bd, npz, turn, gi, nn, sp>>

\* stats, lines 165-176
CliStatsCmd ==
    /\ cli.cmd = "stats" /\ hpc[1] = "idle"
    /\ \/ /\ cli.pc = "open" /\ ret[1].op = "open"
          /\ cli' = [cli EXCEPT !.pc = "stats"]
       \/ /\ cli.pc = "stats" /\ ret[1].op = "stats"
          /\ cli' = [cli EXCEPT !.pc = "close"]
       \/ /\ cli.pc = "close" /\ ret[1].op = "close"
          /\ cli' = [cli EXCEPT !.pc = "exit", !.status = "ok"]
    /\ UNCHANGED histVars
    /\ UNCHANGED <<twice, graph, nr, bd, npz, turn, gi, nn, sp>>

\* a command started on a store that earlier runs left behind
CliInit ==
    /\ \E t \in PriorTables : StoreInit(t)
    /\ \E c \in CliCommands :
           cli = [cmd |-> c.cmd, edges |-> c.edges, found |-> c.found,
                  output |-> c.output, record |-> c.record,
                  pc |-> "open", status |-> "running"]
    /\ twice = 0 /\ graph = 0 /\ nr = 0
    /\ bd = 0 /\ npz = 0 /\ turn = 0 /\ gi = 0 /\ nn = 0 /\ sp = 0

CliNext ==
    \/ CliOpen \/ CliGetWalkedEdges \/ CliRecordWalk \/ CliStats \/ CliClose
    \/ RecordWalkUpsert(1) \/ RecordWalkRaise(1) \/ RecordWalkCommit(1)
    \/ CliRoute \/ CliRecord \/ CliStatsCmd

SpecCli == CliInit /\ [][CliNext]_vars

(***************************************************************************)
(* A WRITER AND A READER (history.py): handle 1 runs one record_walk(E),   *)
(* handle 2 of the same store calls get_walked_edges, in any interleaving  *)
(* of the statements.  twice.E is the list, twice.base the store before.   *)
(***************************************************************************)
ConcInit ==
    /\ \E t \in PriorTables, E \in RouteEdgeLists :
           /\ db = t
           /\ twice = [E |-> E, base |-> t]
    /\ conn = [h \in {1, 2} |-> "closed"]
    /\ intxn = [h \in {1, 2} |-> FALSE]
    /\ work = [h \in {1, 2} |-> EmptyTable]
    /\ hpc = [h \in {1, 2} |-> "idle"]
    /\ todo = [h \in {1, 2} |-> <<>>]
    /\ ret = [h \in {1, 2} |-> NoRet]
    /\ ghost = GhostInit
    /\ graph = 0 /\ nr = 0 /\ RestUnused

\* the writer's one call
ConcRecord == ghost.ncalls < 1 /\ RecordWalkBegin(1, twice.E)

ConcNext ==
    \/ Open(1) \/ Open(2)
    \/ ConcRecord
    \/ RecordWalkUpsert(1) \/ RecordWalkRaise(1) \/ RecordWalkCommit(1)
    \/ GetWalkedEdges(2)
    \/ Close(1) \/ Close(2)

SpecConc == ConcInit /\ [][ConcNext]_vars

(***************************************************************************)
(* LOADING A GRAPH FILE (graph_builder.py build_graph lines 389-393,       *)
(* _load_graph): the file exists, written by build_graph or damaged since. *)
(***************************************************************************)
\* a file of the ring with one array entry changed
Damaged(file, kind) ==
    CASE kind = 1 -> [file EXCEPT !.node_ids[0] = file.node_ids[1],
                                  !.node_ids[1] = file.node_ids[0]]
      [] kind = 2 -> [file EXCEPT !.adj_offsets[1] = file.adj_offsets[2] + 1]
      [] kind = 3 -> [file EXCEPT !.adj_targets[0] = file.adj_targets[1],
                                  !.adj_targets[1] = file.adj_targets[0]]
      [] kind = 4 -> [file EXCEPT !.adj_targets[0] = 0]
      [] kind = 5 -> [file EXCEPT !.adj_weights[0] = @ + 1]
      [] kind = 6 -> [file EXCEPT !.edge_name_indices[0] = Len(file.name_table)]
      [] kind = 7 -> [file EXCEPT !.edge_highway_indices[0] = Len(file.highway_table)]

GraphFiles ==
    LET files == {RingFile(tags) : tags \in [1..4 -> Tags]}
    IN  files \cup {Damaged(file, kind) : file \in files, kind \in 1..7}

LoadInit ==
    /\ npz \in GraphFiles
    /\ bd = BuildFrame(<<>>)
    /\ graph = 0 /\ nr = 0
    /\ StoreInit(EmptyTable) /\ twice = 0
    /\ turn = 0 /\ gi = 0 /\ cli = 0 /\ nn = 0 /\ sp = 0

LoadNext == BuildEnter \/ LoadGraph

SpecLoad == LoadInit /\ [][LoadNext]_vars

(***************************************************************************)
(* NEAREST NODE (graph_builder.py CompactGraph.find_nearest_node and       *)
(* _build_kdtree).  The nodes and the query lie on the equator, so         *)
(* cos_lat = 1; longitudes are in quarter degrees, nodes at whole degrees  *)
(* and queries a quarter degree off them, so that no two distances tie.    *)
(***************************************************************************)
MaxNodes == 11       \* nodes of the graph
KNearest == 10       \* k = min(10, len(self.node_ids))

NodeLons  == {4 * d : d \in ((0 - 170)..(0 - 161)) \cup {100, 179}}
QueryLons == {0 - 719, 0 - 659, 1}

\* haversine between two points of the equator: the arc the shorter way round
haversine_equator(lon1, lon2) ==
    Min2(abs(lon2 - lon1), 1440 - abs(lon2 - lon1))

\* KDTree.query(q, k): the k indices nearest to q in the projected plane,
\* nearest first; in the plane the distance is |lon - q|
RECURSIVE kdtree_query(_, _, _, _)
kdtree_query(node_lons, among, q, k) ==
    IF k = 0 \/ among = {} THEN <<>>
    ELSE LET near == CHOOSE i \in among :
                         \A j \in among : abs(node_lons[i] - q) <= abs(node_lons[j] - q)
         IN  <<near>> \o kdtree_query(node_lons, among \ {near}, q, k - 1)

\* the loop over idxs: the first candidate of the least haversine distance
RECURSIVE Rerank(_, _, _, _)
Rerank(node_lons, q, idxs, best) ==
    IF idxs = <<>> THEN best
    ELSE LET d == haversine_equator(q, node_lons[Head(idxs)])
         IN  Rerank(node_lons, q, Tail(idxs),
                    IF best.idx < 0 \/ d < best.dist
                    THEN [idx |-> Head(idxs), dist |-> d] ELSE best)


\* lines 108-119: the tree, the projected query, the k candidates
NearestQuery ==
    /\ nn.pc = "enter"
    /\ nn' = [nn EXCEPT !.pc = "rerank",
                        !.idxs = kdtree_query(nn.node_lons, DOMAIN nn.node_lons, nn.q,
                                              Min2(KNearest, Cardinality(DOMAIN nn.node_lons)))]
    /\ UNCHANGED <<histVars, routeVars, bd, npz, turn, gi, cli, sp>>

\* lines 121-129: re-rank the candidates by haversine and return the best
NearestRerank ==
    /\ nn.pc = "rerank"
    /\ nn' = [nn EXCEPT !.pc = "returned",
                        !.best = Rerank(nn.node_lons, nn.q, nn.idxs,
                                        [idx |-> 0 - 1, dist |-> 1440])]
    /\ UNCHANGED <<histVars, routeVars, bd, npz, turn, gi, cli, sp>>

\* any non-empty graph of at most MaxNodes nodes, any query
NearestInit ==
    /\ \E S \in SUBSET NodeLons, q \in QueryLons :
           /\ S # {} /\ Cardinality(S) <= MaxNodes
           /\ nn = [pc |-> "enter", node_lons |-> ZeroBased(SortedIds(S)), q |-> q,
                    idxs |-> <<>>, best |-> [idx |-> 0 - 1, dist |-> 1440]]
    /\ graph = 0 /\ nr = 0
    /\ StoreInit(EmptyTable) /\ twice = 0
    /\ bd = 0 /\ npz = 0 /\ turn = 0 /\ gi = 0 /\ cli = 0 /\ sp = 0

NearestNext == NearestQuery \/ NearestRerank

SpecNearest == NearestInit /\ [][NearestNext]_vars

(***************************************************************************)
(* WIDE STRING TABLES (graph_builder.py: _graph_to_compact,                *)
(* CompactGraph.edge_name and CompactGraph.edge_highway).  The tables of a *)
(* large extract are not enumerated: a table is modelled by its length,    *)
(* its i-th string by StringAt(table, i), and the edge under observation   *)
(* by its name and highway, whose places in the sorted lists are their     *)
(* indices.  bd is the frame of the conversion and of the two reads, npz   *)
(* holds the two slots of the edge, graph the CompactGraph loaded from it. *)
(***************************************************************************)
WalkableHighways == 17          \* len(WALKABLE_HIGHWAYS)

\* numbers of distinct non-empty names around the widths of the fields, and
\* the indices of the edge's name and highway in the sorted lists
NameCounts   == {1, 255, 256, 65535, 65536, 65537}
NameIndices  == {0, 1, 255, 256, 65535, 65536, 65537}
HighwayIndices == {0, 1, 16, WalkableHighways}

\* name_list[i] and highway_list[i]: the i-th string of the table, the
\* one at index 0 being ""
StringAt(table, i) == <<table, i>>
\* name_to_idx[s] and highway_to_idx[s]
name_to_idx(s) == s[2]

\* lines 286-306 on NumPy 1.x: the indices are stored in the uint16 and the
\* uint8 array, in both slots of the edge
FillSlotsWrap ==
    /\ bd.pc = "fill"
    /\ LET ni == name_to_idx(bd.name)
           hi == name_to_idx(bd.highway)
       IN  npz' = [exists |-> TRUE,
                   edge_name_indices    |-> [j \in 0..1 |-> uint16(ni)],
                   edge_highway_indices |-> [j \in 0..1 |-> uint8(hi)],
                   name_table    |-> bd.names + 1,
                   highway_table |-> bd.highways + 1]
    /\ bd' = [bd EXCEPT !.pc = "load"]
    /\ UNCHANGED graph
    /\ UNCHANGED <<histVars, nr, turn, gi, cli, nn, sp>>

\* lines 301-302 on NumPy 2: an index the field cannot hold raises
\* OverflowError, and no graph is built
FillSlotsRaise ==
    /\ bd.pc = "fill"
    /\ \/ name_to_idx(bd.name) >= 2 ^ 16
       \/ name_to_idx(bd.highway) >= 2 ^ 8
    /\ bd' = [bd EXCEPT !.pc = "raised"]
    /\ UNCHANGED <<graph, npz>>
    /\ UNCHANGED <<histVars, nr, turn, gi, cli, nn, sp>>

\* CompactGraph.edge_name on slot j: name_table[edge_name_indices[j]]
EdgeName(j) ==
    /\ bd.pc = "done"
    /\ bd.read_name = <<>>
    /\ graph.edge_name_indices[j] < graph.name_table
    /\ bd' = [bd EXCEPT !.read_name = <<StringAt("name", graph.edge_name_indices[j])>>]
    /\ UNCHANGED <<graph, npz>>
    /\ UNCHANGED <<histVars, nr, turn, gi, cli, nn, sp>>

\* CompactGraph.edge_highway on slot j: highway_table[edge_highway_indices[j]]
EdgeHighway(j) ==
    /\ bd.pc = "done"
    /\ bd.read_highway = <<>>
    /\ graph.edge_highway_indices[j] < graph.highway_table
    /\ bd' = [bd EXCEPT !.read_highway =
                            <<StringAt("highway", graph.edge_highway_indices[j])>>]
    /\ UNCHANGED <<graph, npz>>
    /\ UNCHANGED <<histVars, nr, turn, gi, cli, nn, sp>>

EdgeNameAnySlot == \E j \in 0..1 : EdgeName(j)
EdgeHighwayAnySlot == \E j \in 0..1 : EdgeHighway(j)

\* a graph with any of the numbers of names and any walkable highways, and
\* an edge with any of its names and highways
WideInit ==
    /\ \E n \in NameCounts, ni \in NameIndices, m \in 1..WalkableHighways,
          hi \in HighwayIndices :
           /\ ni <= n /\ hi <= m
           /\ bd = [pc |-> "fill", names |-> n, highways |-> m,
                    name |-> StringAt("name", ni), highway |-> StringAt("highway", hi),
                    read_name |-> <<>>, read_highway |-> <<>>]
    /\ npz = NoFile
    /\ graph = 0 /\ nr = 0
    /\ StoreInit(EmptyTable) /\ twice = 0
    /\ turn = 0 /\ gi = 0 /\ cli = 0 /\ nn = 0 /\ sp = 0

WideNext ==
    FillSlotsWrap \/ FillSlotsRaise \/ LoadGraph \/ EdgeNameAnySlot \/ EdgeHighwayAnySlot

SpecWide == WideInit /\ [][WideNext]_vars

(***************************************************************************)
(* ONE A* SEARCH, STEP BY STEP (router.py, shortest_path and               *)
(* _penalized_astar).  sp is the frame of the call: its position, the      *)
(* indices of source and target, the cost of every slot, the unit of the   *)
(* heuristic, the search state (g_score, came_from, counter, open_set),    *)
(* the value returned, and one history field (popped: the entry the last   *)
(* heappop took and the queue it took it from).                            *)
(***************************************************************************)
\* a second layout of the four nodes: the corners of a square
SquareCoord == (1 :> <<0, 0>>) @@ (2 :> <<0, 1>>) @@ (3 :> <<1, 0>>) @@ (5 :> <<1, 1>>)
Layouts == {Coord, SquareCoord}

\* the compact graph of the same ways with the nodes at the places `coord`
Relocated(G, coord) ==
    LET lat(i) == coord[G.node_ids[i]][1]
        lon(i) == coord[G.node_ids[i]][2]
    IN  [G EXCEPT !.node_lats = [i \in DOMAIN G.node_ids |-> lat(i)],
                  !.node_lons = [i \in DOMAIN G.node_ids |-> lon(i)],
                  !.adj_weights = [j \in DOMAIN G.adj_targets |->
                                     haversine(lat(SlotOwner(G, j)), lon(SlotOwner(G, j)),
                                               lat(G.adj_targets[j]), lon(G.adj_targets[j]))]]

\* the penalty factors of the calls: 0 stands for shortest_path, which has none
SearchPenalties == {0, (3 * SCALE) \div 2, 10 * SCALE, 160 * SCALE}

NoneFound == [found |-> FALSE, path_indices |-> <<>>]

\* lines 55-76 and 206-221: the early return, else the arrays and the queue
SearchEnter(source_osm, target_osm, walked_edges, penalty_factor) ==
    /\ sp.pc = "idle"
    /\ LET src_idx == idx_for_osm_id(graph, source_osm)
           tgt_idx == idx_for_osm_id(graph, target_osm)
           f == [sp EXCEPT !.src_idx = src_idx, !.tgt_idx = tgt_idx,
                           !.walked_edges = walked_edges,
                           !.penalty_factor = penalty_factor]
       IN  sp' = IF source_osm = target_osm
                 THEN [f EXCEPT !.pc = "done",
                                !.result = [found |-> TRUE, path_indices |-> <<src_idx>>]]
                 ELSE [f EXCEPT !.pc = "loop",
                                !.hs = IF penalty_factor = 0 THEN 1 ELSE SCALE,
                                !.cost = IF penalty_factor = 0 THEN graph.adj_weights
                                         ELSE [j \in DOMAIN graph.adj_targets |->
                                                 EffectiveWeight(graph, SlotOwner(graph, j), j,
                                                                 walked_edges, penalty_factor)],
                                !.st = SearchInit(graph, src_idx)]
    /\ UNCHANGED <<histVars, routeVars, bd, npz, turn, gi, cli, nn>>

\* lines 78-99 and 223-256: one round of `while open_set`
SearchIterate ==
    /\ sp.pc = "loop"
    /\ sp.st.open_set # {}
    /\ LET e       == heappop(sp.st.open_set)
           g       == e[2]
           current == e[4]
           st1     == [sp.st EXCEPT !.open_set = @ \ {e}]
           f       == [sp EXCEPT !.popped = <<[entry |-> e, from |-> sp.st.open_set]>>]
       IN  sp' = IF current = sp.tgt_idx
                 THEN [f EXCEPT !.pc = "done", !.st = st1,
                                !.result = [found |-> TRUE,
                                            path_indices |->
                                                _reconstruct_path(st1.came_from, sp.src_idx,
                                                                  sp.tgt_idx)]]
                 ELSE IF g > st1.g_score[current]
                 THEN [f EXCEPT !.st = st1]
                 ELSE [f EXCEPT !.st = Relax(graph, sp.cost, sp.hs,
                                             graph.node_lats[sp.tgt_idx],
                                             graph.node_lons[sp.tgt_idx],
                                             current, g, graph.adj_offsets[current], st1)]
    /\ UNCHANGED <<histVars, routeVars, bd, npz, turn, gi, cli, nn>>

\* lines 101 and 258: the queue is empty, `return None, None`
SearchExhausted ==
    /\ sp.pc = "loop"
    /\ sp.st.open_set = {}
    /\ sp' = [sp EXCEPT !.pc = "done", !.result = NoneFound]
    /\ UNCHANGED <<histVars, routeVars, bd, npz, turn, gi, cli, nn>>

\* a graph of any non-empty set of ways in either layout; no call yet
SearchRunInit ==
    /\ \E E \in (SUBSET AllKeys) \ {{}}, c \in Layouts :
           graph = Relocated(GraphToCompact(E), c)
    /\ sp = [pc |-> "idle", src_idx |-> 0, tgt_idx |-> 0, walked_edges |-> {},
             penalty_factor |-> 0, hs |-> 1, cost |-> <<>>,
             st |-> [g_score |-> <<>>, came_from |-> <<>>, counter |-> 0,
                     open_set |-> {}, pushed |-> <<>>],
             popped |-> <<>>, result |-> NoneFound]
    /\ nr = 0
    /\ StoreInit(EmptyTable) /\ twice = 0
    /\ bd = 0 /\ npz = 0 /\ turn = 0 /\ gi = 0 /\ cli = 0 /\ nn = 0

\* a call of shortest_path or of _penalized_astar with any arguments
SearchCall ==
    \E source, target \in NodeIds(graph), W \in WalkedSets(graph), p \in SearchPenalties :
        /\ p = 0 => W = {}
        /\ SearchEnter(source, target, W, p)

SearchNext == SearchCall \/ SearchIterate \/ SearchExhausted

SpecSearch == SearchRunInit /\ [][SearchNext]_vars

(***************************************************************************)
(* PROPERTIES OF THE WALK HISTORY                                          *)
(***************************************************************************)
\* what the operations of handle h report: its view of the table
Observed(h) == View(h)

TwiceDone == ghost.ncalls = 2 /\ hpc[1] = "idle"

\* C6 as stated: after record_walk(E); record_walk(E), every edge that occurs
\* in E has a walk_count exactly 2 greater than before the two calls.
C6_TwiceAddsExactlyTwo ==
    TwiceDone =>
        \A i \in 1..Len(twice.E) :
            LET e == twice.E[i]
            IN  get_walk_count(Observed(1), e[1], e[2])
                    = get_walk_count(twice.base, e[1], e[2]) + 2

\* C6 amended: after record_walk(E); record_walk(E), every edge that occurs in
\* E has a walk_count exactly 2k greater than before the two calls (0 if it
\* had no row), k being the number of elements of E that name the edge in
\* either orientation; so exactly 2 greater when E names it once.
C6_TwiceAddsTwoPerOccurrence ==
    TwiceDone =>
        \A i \in 1..Len(twice.E) :
            LET e == twice.E[i]
            IN  get_walk_count(Observed(1), e[1], e[2])
                    = get_walk_count(twice.base, e[1], e[2])
                      + 2 * Occ(Unordered(e), twice.E)

\* C6's case: a list that names one edge twice, in both orientations, has been
\* recorded twice on a store that already held a row for it.
C6_Witness ==
    /\ TwiceDone
    /\ twice.E = <<<<5, 3>>, <<3, 5>>>>
    /\ get_walk_count(twice.base, 3, 5) = 1
    /\ get_walk_count(Observed(1), 3, 5) = 5

Recorded(a, b) == <<a, b>> \in NodePairs /\ ghost.ups[<<a, b>>] > 0

\* is_walked and get_walk_count answer the same for (a, b) and (b, a)
OrientationSymmetric ==
    \A h \in Handles : \A a, b \in Ids :
        /\ is_walked(Observed(h), a, b) = is_walked(Observed(h), b, a)
        /\ get_walk_count(Observed(h), a, b) = get_walk_count(Observed(h), b, a)

\* C7: the history is orientation-independent.  After any sequence of
\* record_walk calls, for all node ids a, b: is_walked(a, b) = is_walked(b, a),
\* get_walk_count(a, b) = get_walk_count(b, a), and get_walked_edges contains
\* (min(a, b), max(a, b)) exactly when a record_walk call has recorded (a, b)
\* or (b, a) (a call that raised has recorded nothing); recording (5, 3) once
\* makes is_walked(3, 5) true with count 1.
C7_OrientationIndependent ==
    \A h \in Handles :
        hpc[h] = "idle" =>
            \A a, b \in Ids :
                LET t == Observed(h)
                    key == <<Min2(a, b), Max2(a, b)>>
                IN  /\ is_walked(t, a, b) = is_walked(t, b, a)
                    /\ get_walk_count(t, a, b) = get_walk_count(t, b, a)
                    /\ key \in get_walked_edges(t) <=> key \in DOMAIN ghost.atomic
                    /\ (CountOf(ghost.atomic, <<3, 5>>) = 1 /\ ghost.ups[<<5, 3>>] = 1
                            /\ ghost.ups[<<3, 5>>] = 0)
                          => (is_walked(t, 3, 5) /\ get_walk_count(t, 3, 5) = 1)

\* C8: record_walk is atomic per call.  Between calls every handle reports,
\* and the committed table holds, exactly the traversals of the calls that
\* completed: no upsert of a call that failed is visible to
\* get_walked_edges / is_walked / get_walk_count or made durable by a later
\* commit.
C8_AtomicPerCall ==
    /\ db = ghost.atomic
    /\ \A h \in Handles :
          hpc[h] = "idle" =>
              /\ get_walked_edges(Observed(h)) = DOMAIN ghost.atomic
              /\ \A a, b \in Ids :
                    get_walk_count(Observed(h), a, b)
                        = CountOf(ghost.atomic, <<Min2(a, b), Max2(a, b)>>)

\* C9: every row of the history store, committed or in a handle's open
\* transaction, has edge_start <= edge_end and walk_count >= 1, and no two
\* rows hold the same unordered pair.
C9_RowsCanonical ==
    \A t \in {db} \cup {Observed(h) : h \in Handles} :
        \A r \in DOMAIN t :
            /\ r[1] <= r[2]
            /\ t[r] >= 1
            /\ \A r2 \in DOMAIN t : Unordered(r2) = Unordered(r) => r2 = r

\* C9's case: both orientations of one edge and a second edge were recorded
\* and committed.
C9_Witness ==
    /\ Recorded(5, 3) /\ Recorded(3, 5) /\ Recorded(5, 8)
    /\ hpc[1] = "idle"
    /\ DOMAIN db = {<<3, 5>>, <<5, 8>>}
    /\ db[<<3, 5>>] >= 2

\* C10: no exposed operation destroys or decreases a history entry.  In every
\* step the walk_count every handle reports for a key (0 for an unwalked key)
\* does not decrease, so the set of walked keys only grows, across record_walk,
\* the reads, close and re-open; and a read leaves the store unchanged.
C10_NeverDestroyed ==
    [][\A h \in Handles :
          /\ \A r \in Rows : CountOf(Observed(h)', r) >= CountOf(Observed(h), r)
          /\ ret'[h].op \in ReadOps => (Observed(h)' = Observed(h) /\ db' = db)]_vars

\* The committed table itself never loses a row or a count.
CommittedOnlyGrows ==
    [][\A r \in Rows : CountOf(db', r) >= CountOf(db, r)]_vars

(***************************************************************************)
(* PROPERTIES OF THE ROUTER                                                *)
(*                                                                         *)
(* The reference notions below are defined on the set of undirected edges  *)
(* and the node coordinates, without the CSR arrays' search.               *)
(***************************************************************************)
KeyWeight(k) == haversine(Coord[k[1]][1], Coord[k[1]][2], Coord[k[2]][1], Coord[k[2]][2])

\* (end node, total weight) of every walk of at most k edges that starts at `from`
RECURSIVE WalkEnds(_, _, _)
WalkEnds(E, from, k) ==
    IF k = 0 THEN {<<from, 0>>}
    ELSE LET P == WalkEnds(E, from, k - 1)
         IN  P \cup {<<IF x[2][1] = x[1][1] THEN x[2][2] ELSE x[2][1], x[1][2] + KeyWeight(x[2])>> :
                        x \in {y \in P \X E : y[1][1] \in {y[2][1], y[2][2]}}}

LongestSimple == Cardinality(OsmIds) - 1

\* the nodes joined to the set S by edges of E
RECURSIVE Component(_, _)
Component(E, S) ==
    LET S2 == S \cup UNION {{e[1], e[2]} : e \in {x \in E : x[1] \in S \/ x[2] \in S}}
    IN  IF S2 = S THEN S ELSE Component(E, S2)

Reachable(E, s, t) == t \in Component(E, {s})

MinWeight(E, s, t) ==
    LET ds == {p[2] : p \in {q \in WalkEnds(E, s, LongestSimple) : q[1] = t}}
    IN  CHOOSE d \in ds : \A d2 \in ds : d <= d2

IsPath(E, path, s, t) ==
    /\ Len(path) >= 1
    /\ path[1] = s
    /\ path[Len(path)] = t
    /\ \A i \in 1..(Len(path) - 1) :
          <<Min2(path[i], path[i + 1]), Max2(path[i], path[i + 1])>> \in E

RECURSIVE PathWeight(_)
PathWeight(path) ==
    IF Len(path) < 2 THEN 0
    ELSE KeyWeight(<<path[1], path[2]>>) + PathWeight(Tail(path))

\* the fraction of the path's edges not walked in either direction (1 for a
\* path without edges)
NovelFraction(path, W) ==
    IF Len(path) < 2 THEN <<1, 1>>
    ELSE <<Cardinality({i \in 1..(Len(path) - 1) :
                          {path[i], path[i + 1]} \notin {{k[1], k[2]} : k \in W}}),
           Len(path) - 1>>

\* weights are non-negative and h(u) <= weight(u, v) + h(v) towards every target
Consistent(G) ==
    \A j \in DOMAIN G.adj_targets, t \in DOMAIN G.node_ids :
        LET u == SlotOwner(G, j)
            v == G.adj_targets[j]
            h(n) == haversine(G.node_lats[n], G.node_lons[n], G.node_lats[t], G.node_lons[t])
        IN  G.adj_weights[j] >= 0 /\ h(u) <= G.adj_weights[j] + h(v)

Called == nr.pc # "idle"
\* the state the baseline search leaves, before any penalized search
BaselineDone == Called /\ nr.searches = <<>>
Returned == nr.pc = "done"
CallReachable == Reachable(GraphKeys(graph), nr.source, nr.target)
CallMinWeight == MinWeight(GraphKeys(graph), nr.source, nr.target)

\* C1: on a graph whose heuristic is consistent, for source # target in one
\* component, shortest_path finds a path and the distance it returns is the
\* least total weight of any source-target path (and the weight of the path
\* it returns).
C1_ShortestPathOptimal ==
    (BaselineDone /\ nr.source # nr.target /\ CallReachable /\ Consistent(graph)) =>
        /\ nr.base.found
        /\ nr.base.dist = CallMinWeight
        /\ IsPath(GraphKeys(graph), nr.base.path, nr.source, nr.target)
        /\ PathWeight(nr.base.path) = nr.base.dist

\* a search from 1 to 5 with two two-edge routes (25 and 30) and no direct edge
C1_Witness ==
    /\ BaselineDone /\ Consistent(graph)
    /\ GraphKeys(graph) = AllKeys \ {<<1, 5>>}
    /\ nr.source = 1 /\ nr.target = 5
    /\ nr.base.found /\ nr.base.dist = 25 /\ nr.base.path = <<1, 2, 5>>

\* C2: with nothing walked, whatever the limits, novelty_route returns at once
\* (no penalized search) a route of the shortest-path distance with novelty 1
\* and overhead 0.
C2_EmptyHistoryIsShortest ==
    (Called /\ nr.walked_edges = {} /\ CallReachable) =>
        /\ Returned
        /\ nr.searches = <<>>
        /\ nr.result # NoneResult
        /\ nr.result.distance = nr.base.dist
        /\ nr.result.distance = CallMinWeight
        /\ FracEq(nr.result.novelty, <<1, 1>>)
        /\ FracEq(nr.result.overhead, <<0, 1>>)

\* nothing walked and a min_novelty above 1: only the empty-history return applies
C2_Witness ==
    /\ Returned /\ nr.walked_edges = {} /\ nr.min_novelty = <<3, 2>>
    /\ nr.source # nr.target
    /\ nr.result # NoneResult /\ Len(nr.result.path) = 3
    /\ nr.searches = <<>>

\* C3: every returned result reports the unpenalized weight of its path as
\* distance, the fraction of its edges not in W (either direction) as novelty,
\* and (distance - shortest) / shortest (0 when shortest is 0) as overhead,
\* shortest being the shortest-path distance.
C3_ResultFiguresTrue ==
    (Returned /\ nr.result # NoneResult) =>
        LET r == nr.result IN
        /\ IsPath(GraphKeys(graph), r.path, nr.source, nr.target)
        /\ r.distance = PathWeight(r.path)
        /\ r.novelty[2] > 0
        /\ FracEq(r.novelty, NovelFraction(r.path, nr.walked_edges))
        /\ r.shortest_distance = CallMinWeight
        /\ r.overhead[2] > 0
        /\ FracEq(r.overhead, IF r.shortest_distance = 0 THEN <<0, 1>>
                              ELSE <<r.distance - r.shortest_distance, r.shortest_distance>>)

\* a result that came out of a penalized search: a detour longer than the baseline
C3_Witness ==
    /\ Returned /\ nr.result # NoneResult
    /\ nr.walked_edges # {} /\ nr.searches # <<>>
    /\ nr.result.path # nr.base.path
    /\ nr.result.distance > nr.base.dist
    /\ nr.result.distance = PathWeight(nr.result.path)

\* the candidates of the bisection and the sweep that are within max_overhead
\* and strictly more novel than the baseline
BetterThanBaseline ==
    {c \in nr.examined :
        /\ FracLeq(IF nr.base.dist > 0 THEN <<PathWeight(c[1]) - nr.base.dist, nr.base.dist>>
                   ELSE <<0, 1>>, nr.max_overhead)
        /\ FracLess(NovelFraction(nr.base.path, nr.walked_edges),
                    NovelFraction(c[1], nr.walked_edges))}

\* C4: when a baseline exists, novelty_route returns a route, never one over
\* max_overhead; and when neither the bisection nor the sweep examined a path
\* within max_overhead that is strictly more novel than the baseline, the
\* route returned is the baseline: its path, the shortest distance, overhead
\* 0 and the baseline's own novelty.
C4_GiveUpReturnsBaseline ==
    (Returned /\ nr.base.found) =>
        /\ nr.result # NoneResult
        /\ FracLeq(nr.result.overhead, nr.max_overhead)
        /\ BetterThanBaseline = {} =>
              /\ nr.result.path = nr.base.path
              /\ nr.result.distance = nr.base.dist
              /\ nr.result.distance = nr.result.shortest_distance
              /\ FracEq(nr.result.overhead, <<0, 1>>)
              /\ FracEq(nr.result.novelty, NovelFraction(nr.base.path, nr.walked_edges))

\* the bisection and the sweep both ran and found a detour, but over the limit
C4_Witness ==
    /\ Returned /\ nr.base.found
    /\ Len(nr.searches) >= BisectRounds + Len(FallbackPenalties)
    /\ \E c \in nr.examined : c[1] # nr.base.path
    /\ BetterThanBaseline = {}
    /\ nr.result.path = nr.base.path
    /\ FracEq(nr.result.novelty, <<0, 1>>)

\* C5: when the target cannot be reached, shortest_path returns NoPath with
\* its queue empty and novelty_route returns None without any penalized
\* search; when it can be reached, neither returns NoPath.
C5_NoPathIffUnreachable ==
    Called =>
        /\ ~CallReachable =>
              /\ ~nr.base.found /\ nr.base.left = 0
              /\ Returned /\ nr.result = NoneResult /\ nr.searches = <<>>
        /\ CallReachable =>
              /\ nr.base.found
              /\ Returned => nr.result # NoneResult

\* two components, {1, 2} and {3, 5}, and a call across them
C5_Witness ==
    /\ Returned
    /\ GraphKeys(graph) = {<<1, 2>>, <<3, 5>>}
    /\ nr.source = 1 /\ nr.target = 5 /\ nr.walked_edges = {<<1, 2>>}
    /\ ~CallReachable
    /\ nr.result = NoneResult /\ nr.base = NoPath


(***************************************************************************)
(* PROPERTIES OF THE BUILT GRAPH                                           *)
(***************************************************************************)
Built == bd.pc = "done"

\* the node whose slice holds position j
OwnerOf(g, j) ==
    CHOOSE i \in 0..(number_of_nodes(g) - 1) : j \in neighbors(g, i)

\* (I3) slices strictly ascending, hence distinct, and free of self-loops
SlicesAscendingNoLoop(g) ==
    \A i \in 0..(number_of_nodes(g) - 1) :
        /\ \A j \in neighbors(g, i) : g.adj_targets[j] # i
        /\ \A j, k \in neighbors(g, i) :
               j < k => g.adj_targets[j] < g.adj_targets[k]

\* (I4) exactly one reciprocal slot, with the same weight and indices
OneReciprocal(g) ==
    \A i \in 0..(number_of_nodes(g) - 1) : \A j \in neighbors(g, i) :
        LET back == {k \in neighbors(g, g.adj_targets[j]) : g.adj_targets[k] = i}
        IN  /\ Cardinality(back) = 1
            /\ \A k \in back :
                   /\ g.adj_weights[k] = g.adj_weights[j]
                   /\ g.edge_name_indices[k] = g.edge_name_indices[j]
                   /\ g.edge_highway_indices[k] = g.edge_highway_indices[j]

\* C11: in every built graph each node's neighbor slice has strictly
\* ascending, distinct targets and no slot of node i targets i, whatever the
\* stream of ways, ways repeating a node ref twice in a row included.
C11_SlicesAscendingNoSelfLoop == Built => SlicesAscendingNoLoop(graph)

\* C12: in every built graph every directed slot (u, v) has exactly one
\* reciprocal slot (v, u), with the identical weight, name index and highway
\* index.
C12_ExactlyOneReciprocal == Built => OneReciprocal(graph)

\* the occurrences of an undirected pair in the stream read so far
OccurrencesOf(key) == {n \in 1..Len(bd.seen) : bd.seen[n].key = key}

\* the first occurrence, in stream order, whose weight is the least
FirstLeast(key) ==
    CHOOSE n \in OccurrencesOf(key) :
        /\ \A m \in OccurrencesOf(key) :
               bd.seen[n].data.weight <= bd.seen[m].data.weight
        /\ \A m \in OccurrencesOf(key) :
               bd.seen[m].data.weight = bd.seen[n].data.weight => n <= m

\* C13: an edge carries the weight, name and highway of the first occurrence
\* of its node pair, in stream order, that attains the least weight over all
\* occurrences - in the builder's graph after every segment and in the slots
\* and string tables of the built graph.
C13_FirstLeastOccurrenceWins ==
    /\ bd.pc \in {"ways", "save", "load", "done"} =>
           /\ DOMAIN bd.edges = {bd.seen[n].key : n \in 1..Len(bd.seen)}
           /\ \A key \in DOMAIN bd.edges :
                  bd.edges[key] = bd.seen[FirstLeast(key)].data
    /\ Built =>
           \A j \in DOMAIN graph.adj_targets :
               LET u == graph.node_ids[OwnerOf(graph, j)]
                   v == graph.node_ids[graph.adj_targets[j]]
                   first == bd.seen[FirstLeast(<<Min2(u, v), Max2(u, v)>>)].data
               IN  /\ graph.adj_weights[j] = first.weight
                   /\ graph.name_table[graph.edge_name_indices[j] + 1] = first.name
                   /\ graph.highway_table[graph.edge_highway_indices[j] + 1]
                          = first.highway

\* a pair met twice under different names and highways, and the graph built
C13_Witness ==
    /\ Built
    /\ \E n, m \in 1..Len(bd.seen) :
           /\ n < m
           /\ bd.seen[n].key = bd.seen[m].key
           /\ bd.seen[n].data.name # bd.seen[m].data.name
           /\ bd.seen[n].data.highway # bd.seen[m].data.highway


(***************************************************************************)
(* PROPERTIES OF THE TURN AT A STEP BOUNDARY                               *)
(***************************************************************************)
StepMade == turn.pc = "step"

\* C14: the class of a turn by |a|: straight below 15, slight below 45,
\* left/right below 120, sharp below 160, u_turn from 160 on, the left
\* variant iff a < 0; exit 10 and entry 95 give +85 and right, exit 10 and
\* entry 355 give -15 and slight_left.
C14_TurnClassTable ==
    StepMade =>
        LET a == turn.turn_angle
            d == turn.turn_direction
            m == IF a < 0 THEN 0 - a ELSE a
        IN  /\ (m < 15) <=> (d = "straight")
            /\ (15 <= m /\ m < 45 /\ a < 0) <=> (d = "slight_left")
            /\ (15 <= m /\ m < 45 /\ a > 0) <=> (d = "slight_right")
            /\ (45 <= m /\ m < 120 /\ a < 0) <=> (d = "left")
            /\ (45 <= m /\ m < 120 /\ a > 0) <=> (d = "right")
            /\ (120 <= m /\ m < 160 /\ a < 0) <=> (d = "sharp_left")
            /\ (120 <= m /\ m < 160 /\ a > 0) <=> (d = "sharp_right")
            /\ (m >= 160) <=> (d = "u_turn")
            /\ (turn.prev_exit = 10 /\ turn.this_entry = 95)
                   => (a = 85 /\ d = "right")
            /\ (turn.prev_exit = 10 /\ turn.this_entry = 355)
                   => (a = 0 - 15 /\ d = "slight_left")

C14_Witness ==
    /\ StepMade
    /\ turn.prev_exit = 10 /\ turn.this_entry = 355
    /\ turn.turn_direction = "slight_left"

Congruent360(x, y) == (x - y) % 360 = 0

\* C15 as stated: the reported angle is congruent to this_entry - prev_exit
\* modulo 360, strictly greater than -180 and at most 180.
C15_HalfOpenInterval ==
    StepMade =>
        /\ Congruent360(turn.turn_angle, turn.this_entry - turn.prev_exit)
        /\ turn.turn_angle > 0 - 180
        /\ turn.turn_angle <= 180

\* C15 amended: the reported angle is congruent to this_entry - prev_exit
\* modulo 360, at least -180 and at most 180, and it is -180 only when the
\* difference itself is -180.
C15_ClosedInterval ==
    StepMade =>
        /\ Congruent360(turn.turn_angle, turn.this_entry - turn.prev_exit)
        /\ turn.turn_angle >= 0 - 180
        /\ turn.turn_angle <= 180
        /\ turn.turn_angle = 0 - 180
               => turn.this_entry - turn.prev_exit = 0 - 180

C15_Witness ==
    /\ StepMade
    /\ turn.prev_exit = 180 /\ turn.this_entry = 0
    /\ turn.turn_angle = 0 - 180


(***************************************************************************)
(* PROPERTIES OF THE INSTRUCTIONS                                          *)
(***************************************************************************)
\* the edges of the path at which a maximal run of equal effective_name starts
RunStarts ==
    {n \in 1..Len(gi.edges) :
        n = 1 \/ gi.edges[n].effective_name # gi.edges[n - 1].effective_name}

\* the k-th run: its first edge and the edge after its last
RunStart(k) ==
    CHOOSE n \in RunStarts : Cardinality({m \in RunStarts : m < n}) = k - 1
RunEnd(k) ==
    IF k = Cardinality(RunStarts) THEN Len(gi.edges) + 1 ELSE RunStart(k + 1)

\* C16: for a path of at least two nodes on a graph with name data the
\* instructions are one step per maximal run of consecutive edges of equal
\* effective_name - the first with turn_direction 'start', each with the
\* summed length of its run, no two consecutive ones with the same
\* effective_name - and then one final step 'Arrive at destination' with
\* distance 0 and direction 'arrive'; a single-edge path gives two steps.
C16_OneStepPerRun ==
    /\ (Len(gi.path) >= 2 /\ has_name_data(graph)) => gi.pc # "none"
    /\ gi.pc = "returned" =>
           LET steps == gi.steps
               runs  == Cardinality(RunStarts)
           IN  /\ Len(gi.edges) = Len(gi.path) - 1
               /\ Len(steps) = runs + 1
               /\ \A k \in 1..runs :
                      /\ steps[k].street_description
                             = gi.edges[RunStart(k)].effective_name
                      /\ steps[k].distance
                             = SumDistances(gi.edges, RunStart(k), RunEnd(k))
                      /\ steps[k].turn_direction # "arrive"
                      /\ (steps[k].turn_direction = "start") <=> (k = 1)
                      /\ k > 1 => steps[k].street_description
                                      # steps[k - 1].street_description
               /\ steps[runs + 1].instruction = <<"Arrive at destination">>
               /\ steps[runs + 1].distance = 0
               /\ steps[runs + 1].turn_direction = "arrive"
               /\ Len(gi.path) = 2 => Len(steps) = 2

\* a path of three edges of which two consecutive ones merge into one step
C16_Witness ==
    /\ gi.pc = "returned"
    /\ Len(gi.path) = 4
    /\ Len(gi.steps) = 3
    /\ gi.steps[2].turn_direction \notin {"start", "arrive", "straight"}


(***************************************************************************)
(* PROPERTIES OF THE COMMAND LINE                                          *)
(***************************************************************************)
\* C17: no run of route, record or stats ends with the walk-history
\* connection it opened still open, failures included.
C17_ClosedOnEveryExit == cli.pc = "exit" => conn[1] = "closed"


(***************************************************************************)
(* PROPERTIES OF A WRITER AND A READER                                     *)
(***************************************************************************)
\* the store with none, and with all, of what record_walk(twice.E) produces
\* (all of it exists only when every element of the list is a pair)
Snapshots ==
    {twice.base} \cup
        (IF \E n \in 1..Len(twice.E) : twice.E[n] = Bad THEN {}
         ELSE {AddAll(twice.base, twice.E)})

\* C18: what the reader's handle reads, and every result get_walked_edges
\* gave it, holds none or all of the rows and increments of the writer's
\* record_walk call, never a part of them.
C18_ReaderSeesNoneOrAll ==
    /\ View(2) \in Snapshots
    /\ ret[2].op = "get_walked_edges" =>
           ret[2].val \in {get_walked_edges(t) : t \in Snapshots}

\* the reader has read while the writer's transaction holds a part of the rows
C18_Witness ==
    /\ ret[2].op = "get_walked_edges"
    /\ hpc[1] = "recording" /\ intxn[1]
    /\ get_walked_edges(work[1]) \notin {get_walked_edges(t) : t \in Snapshots}


(***************************************************************************)
(* PROPERTIES OF LOADING                                                   *)
(***************************************************************************)
\* (I1)-(I5) of a graph file or a loaded graph
WellFormed(g) ==
    LET N == number_of_nodes(g)
    IN  /\ \A i \in 0..(N - 2) : g.node_ids[i] < g.node_ids[i + 1]
        /\ \A i \in 0..(N - 1) : g.adj_offsets[i] <= g.adj_offsets[i + 1]
        /\ SlicesAscendingNoLoop(g)
        /\ OneReciprocal(g)
        /\ \A j \in DOMAIN g.adj_targets :
               /\ g.edge_name_indices[j] < Len(g.name_table)
               /\ g.edge_highway_indices[j] < Len(g.highway_table)

\* C19: a graph file that violates one of (I1)-(I5) is not loaded: no load
\* of it returns a CompactGraph.
C19_MalformedFileRejected == ~WellFormed(npz) => bd.pc # "done"


(***************************************************************************)
(* PROPERTIES OF THE NEAREST NODE                                          *)
(***************************************************************************)
\* C20: the node find_nearest_node returns is at the least haversine
\* distance from the query over all nodes of the graph, and the distance
\* returned is that distance.
C20_NearestOverAllNodes ==
    nn.pc = "returned" =>
        /\ nn.best.idx \in DOMAIN nn.node_lons
        /\ nn.best.dist = haversine_equator(nn.q, nn.node_lons[nn.best.idx])
        /\ \A i \in DOMAIN nn.node_lons :
               nn.best.dist <= haversine_equator(nn.q, nn.node_lons[i])


(***************************************************************************)
(* PROPERTIES OF THE NOVELTY SEARCH                                        *)
(***************************************************************************)
\* C21: when the baseline's novelty is at least min_novelty, novelty_route
\* returns the baseline path with overhead 0 and runs no penalized search,
\* also when a more novel route within max_overhead exists.
C21_EarlyExitReturnsBaseline ==
    (Called /\ nr.base.found
        /\ FracLeq(nr.min_novelty, NovelFraction(nr.base.path, nr.walked_edges))) =>
        /\ Returned
        /\ nr.searches = <<>>
        /\ nr.result # NoneResult
        /\ nr.result.path = nr.base.path
        /\ nr.result.distance = nr.base.dist
        /\ FracEq(nr.result.overhead, <<0, 1>>)

\* the baseline 1-2-5 (25) is half walked, which meets the default 0.3; the
\* detour 1-3-5 (30) is all new and within the default overhead of 0.25
C21_Witness ==
    /\ Returned
    /\ GraphKeys(graph) = AllKeys \ {<<1, 5>>}
    /\ nr.source = 1 /\ nr.target = 5 /\ nr.walked_edges = {<<1, 2>>}
    /\ nr.min_novelty = <<3, 10>> /\ nr.max_overhead = <<1, 4>>
    /\ nr.result.path = <<1, 2, 5>> /\ nr.searches = <<>>
    /\ IsPath(GraphKeys(graph), <<1, 3, 5>>, 1, 5)
    /\ FracLeq(<<PathWeight(<<1, 3, 5>>) - nr.base.dist, nr.base.dist>>, nr.max_overhead)
    /\ FracLess(nr.result.novelty, NovelFraction(<<1, 3, 5>>, nr.walked_edges))


\* C22: the upper-bound phase starts from lo = 1.0 and hi = 10.0 and makes
\* at most 5 searches, each at the current hi; a search without a path sets
\* hi to (lo + hi) / 2 and goes on; a path of novelty >= min_novelty ends
\* the phase with hi unchanged; otherwise hi doubles and the phase ends as
\* soon as the doubled hi exceeds 100.
C22_UpperBoundPhase ==
    [][/\ (nr.pc = "idle" /\ nr'.pc = "upper") =>
              /\ nr'.lo_penalty = 1 * SCALE /\ nr'.hi_penalty = 10 * SCALE
              /\ nr'.it = 0 /\ nr'.searches = <<>>
       /\ nr.pc = "upper" =>
              LET r == _penalized_astar(graph, nr.source, nr.target,
                                        nr.walked_edges, nr.hi_penalty)
                  enough == FracLeq(nr.min_novelty,
                                    NovelFraction(r.path, nr.walked_edges))
                  last == nr.it + 1 = 5
              IN  /\ nr.it < 5 /\ Len(nr.searches) = nr.it
                  /\ nr'.searches = Append(nr.searches, nr.hi_penalty)
                  /\ nr'.lo_penalty = nr.lo_penalty
                  /\ nr'.pc \in {"upper", "bisect"}
                  /\ nr'.pc = "upper" => nr'.it = nr.it + 1
                  /\ ~r.found =>
                         /\ 2 * nr'.hi_penalty = nr.lo_penalty + nr.hi_penalty
                         /\ (nr'.pc = "bisect") <=> last
                  /\ (r.found /\ enough) =>
                         /\ nr'.hi_penalty = nr.hi_penalty
                         /\ nr'.pc = "bisect"
                  /\ (r.found /\ ~enough) =>
                         /\ nr'.hi_penalty = 2 * nr.hi_penalty
                         /\ (nr'.pc = "bisect")
                                <=> (last \/ nr'.hi_penalty > 100 * SCALE)
      ]_vars

\* four searches below min_novelty, at 10, 20, 40 and 80: hi is 160
C22_Witness ==
    /\ nr.pc = "bisect" /\ nr.it = 0
    /\ nr.searches = <<10 * SCALE, 20 * SCALE, 40 * SCALE, 80 * SCALE>>
    /\ nr.hi_penalty = 160 * SCALE


\* C23: the bisection makes exactly 10 rounds; each searches at
\* mid = (lo + hi) / 2 and then applies exactly one rule: no path, hi = mid;
\* novelty < min_novelty, lo = mid; else overhead > max_overhead, hi = mid;
\* else lo = mid.  The bracket width halves in every round.
C23_BisectionRounds ==
    [][(nr.pc = "bisect" /\ nr.it < 10) =>
          LET lo == nr.lo_penalty
              hi == nr.hi_penalty
              r == _penalized_astar(graph, nr.source, nr.target, nr.walked_edges,
                                    nr'.searches[Len(nr'.searches)])
              novelty == NovelFraction(r.path, nr.walked_edges)
              over == nr.base.dist > 0
                         /\ (r.dist - nr.base.dist) * nr.max_overhead[2]
                                > nr.max_overhead[1] * nr.base.dist
              setHi == ~r.found \/ (~FracLess(novelty, nr.min_novelty) /\ over)
          IN  /\ Len(nr'.searches) = Len(nr.searches) + 1
              /\ \E m \in {nr'.searches[Len(nr'.searches)]} :
                    /\ 2 * m = lo + hi
                    /\ setHi  => (nr'.hi_penalty = m /\ nr'.lo_penalty = lo)
                    /\ ~setHi => (nr'.lo_penalty = m /\ nr'.hi_penalty = hi)
              /\ 2 * (nr'.hi_penalty - nr'.lo_penalty) = hi - lo
              /\ nr'.pc = "bisect" /\ nr'.it = nr.it + 1
      ]_vars
      /\ [](nr.pc = "bisect" => nr.it <= 10)
      /\ [][nr.pc = "bisect" /\ nr'.pc # "bisect" => nr.it = 10]_vars

\* the tenth round is over, rounds having moved lo and rounds having moved hi
C23_Witness ==
    /\ nr.pc = "bisect" /\ nr.it = 10
    /\ nr.lo_penalty > 1 * SCALE
    /\ \E i \in 1..Len(nr.searches) : nr.hi_penalty = nr.searches[i]
    /\ \E i \in 1..Len(nr.searches) : nr.lo_penalty = nr.searches[i]


\* the candidate the sweep's step number i looked at
SweepCandidate(i) ==
    _penalized_astar(graph, nr.source, nr.target, nr.walked_edges,
                     <<1536, 2048, 3072, 5120, 8192>>[i])

WithinOverhead(dist) ==
    nr.base.dist > 0 =>
        (dist - nr.base.dist) * nr.max_overhead[2] <= nr.max_overhead[1] * nr.base.dist

\* C24: after the bisection the sweep over the penalties 1.5, 2.0, 3.0, 5.0
\* and 8.0, in this order, runs exactly when no best result was kept or the
\* best result's novelty is below min_novelty; a candidate of the sweep
\* replaces the best result exactly when its overhead is at most
\* max_overhead and its novelty is strictly greater than the best so far.
C24_FallbackSweep ==
    [][/\ (nr.pc = "bisect" /\ nr.it = 10) =>
              /\ nr'.pc = IF nr.best_result = NoneResult
                             \/ FracLess(nr.best_result.novelty, nr.min_novelty)
                          THEN "fallback" ELSE "finish"
              /\ nr'.searches = nr.searches
              /\ nr'.best_result = nr.best_result
       /\ nr.pc = "finish" => nr'.searches = nr.searches
       /\ nr.pc = "fallback" =>
              LET i == nr'.it
                  r == SweepCandidate(i)
                  novelty == NovelFraction(r.path, nr.walked_edges)
                  keep == /\ r.found
                          /\ WithinOverhead(r.dist)
                          /\ FracLess(nr.best_novelty, novelty)
              IN  /\ i = nr.it + 1 /\ i \in 1..5
                  /\ nr'.searches = Append(nr.searches,
                                           <<1536, 2048, 3072, 5120, 8192>>[i])
                  /\ nr'.pc = IF i = 5 THEN "finish" ELSE "fallback"
                  /\ keep => /\ nr'.best_result # NoneResult
                             /\ nr'.best_result.path = r.path
                             /\ nr'.best_result.distance = r.dist
                             /\ nr'.best_novelty = novelty
                  /\ ~keep => /\ nr'.best_result = nr.best_result
                              /\ nr'.best_novelty = nr.best_novelty
      ]_vars

\* the sweep kept a candidate at one penalty and then passed over a
\* candidate within max_overhead that was exactly as novel
C24_Witness ==
    /\ nr.pc \in {"fallback", "finish"} /\ nr.it \in 2..5
    /\ Len(nr.searches) > 10
    /\ nr.best_result # NoneResult
    /\ \E i \in 1..(nr.it - 1) :
          /\ SweepCandidate(i).found
          /\ SweepCandidate(i).path = nr.best_result.path
          /\ FracLess(nr.base_novel, nr.best_novelty)
    /\ LET r == SweepCandidate(nr.it)
       IN  /\ r.found /\ WithinOverhead(r.dist)
           /\ FracEq(NovelFraction(r.path, nr.walked_edges), nr.best_novelty)


\* the true overhead of a path is at most max_overhead
PathWithinOverhead(path) == WithinOverhead(PathWeight(path))

\* C26: with max_overhead >= 0, a returned route other than the baseline is
\* within max_overhead, strictly more novel than the baseline, and at least
\* as novel as every candidate of the bisection and the sweep that was
\* within max_overhead; so every returned route is within max_overhead and
\* at least as novel as the baseline.
C26_ReturnedIsBestExamined ==
    (Returned /\ nr.result # NoneResult /\ FracLeq(<<0, 1>>, nr.max_overhead)) =>
        LET novelty == NovelFraction(nr.result.path, nr.walked_edges)
            base_novelty == NovelFraction(nr.base.path, nr.walked_edges)
        IN  /\ PathWithinOverhead(nr.result.path)
            /\ FracLeq(base_novelty, novelty)
            /\ nr.result.path # nr.base.path =>
                  /\ FracLess(base_novelty, novelty)
                  /\ \A c \in nr.examined :
                        PathWithinOverhead(c[1]) =>
                            FracLeq(NovelFraction(c[1], nr.walked_edges), novelty)

\* a longer detour was returned; the searches had also examined the baseline
\* path (within the limit, less novel)
C26_Witness ==
    /\ Returned /\ nr.result # NoneResult
    /\ nr.result.path # nr.base.path
    /\ nr.base.path \in {c[1] : c \in nr.examined}
    /\ nr.result.distance > nr.base.dist
    /\ Cardinality(nr.examined) >= 2

\* the cost a search with this penalty factor gives every slot is at least
\* the slot's weight, and towards the call's target the heuristic is
\* consistent with these costs: h(u) <= cost(u, v) + h(v)
PenalizedConsistent(penalty_factor) ==
    LET t == idx_for_osm_id(graph, nr.target)
        h(n) == haversine(graph.node_lats[n], graph.node_lons[n],
                          graph.node_lats[t], graph.node_lons[t])
    IN  \A j \in DOMAIN graph.adj_targets :
            LET u == SlotOwner(graph, j)
                v == graph.adj_targets[j]
                cost == IF _edge_key_router(graph.node_ids[u], graph.node_ids[v])
                              \in nr.walked_edges
                        THEN graph.adj_weights[j] * penalty_factor
                        ELSE graph.adj_weights[j] * SCALE
            IN  /\ cost >= graph.adj_weights[j] * SCALE
                /\ SCALE * h(u) <= cost + SCALE * h(v)

\* C27: in the upper-bound phase and in the bisection 1.0 <= lo <= hi <= 160;
\* every penalty factor a search was called with (those of the sweep
\* included) is at least 1 and at most 160; with such a factor no edge costs
\* less than its weight and the heuristic stays consistent.
C27_PenaltyBracket ==
    /\ (Called /\ nr.pc \in {"upper", "bisect"}) =>
          /\ 1 * SCALE <= nr.lo_penalty
          /\ nr.lo_penalty <= nr.hi_penalty
          /\ nr.hi_penalty <= 160 * SCALE
    /\ (Called /\ nr.searches # <<>>) =>
          /\ \A i \in 1..Len(nr.searches) :
                1 * SCALE <= nr.searches[i] /\ nr.searches[i] <= 160 * SCALE
          /\ PenalizedConsistent(nr.searches[Len(nr.searches)])

\* the bracket at its widest: hi doubled to 160, lo moved up by the bisection
C27_Witness ==
    /\ nr.pc = "bisect" /\ nr.it >= 1
    /\ nr.hi_penalty = 160 * SCALE
    /\ nr.lo_penalty > 1 * SCALE
    /\ nr.walked_edges # {}

\* C28: when the baseline search finds a path, every penalized search of the
\* call finds one too, and the call makes at most 1 + 5 + 10 + 5 searches.
C28_PenalizedSearchFindsPath ==
    (Called /\ nr.base.found /\ nr.searches # <<>>) =>
        /\ _penalized_astar(graph, nr.source, nr.target, nr.walked_edges,
                            nr.searches[Len(nr.searches)]).found
        /\ CallReachable
        /\ 1 + Len(nr.searches) <= 1 + 5 + 10 + 5

\* the walked edge is a bridge between source and target, and the call ran
\* the upper-bound phase, the bisection and the whole sweep
C28_Witness ==
    /\ Returned /\ nr.base.found
    /\ Len(nr.searches) >= 10 + 5 + 1
    /\ ~Reachable(GraphKeys(graph) \ nr.walked_edges, nr.source, nr.target)
    /\ nr.result # NoneResult

\* a walk of the graph from the call's source to its target without a
\* repeated node
ValidSimpleWalk(path) ==
    /\ IsPath(GraphKeys(graph), path, nr.source, nr.target)
    /\ \A i, j \in 1..Len(path) : i # j => path[i] # path[j]

\* C29: for source # target every path shortest_path or _penalized_astar
\* returns starts at the source (the walk back over the parent pointers
\* reached it), ends at the target, steps along edges and repeats no node;
\* the 'edges' of a result are exactly the consecutive pairs of its 'path'.
C29_PathsAreSimpleWalks ==
    (Called /\ nr.source # nr.target) =>
        /\ nr.base.found => ValidSimpleWalk(nr.base.path)
        /\ \A c \in nr.examined : ValidSimpleWalk(c[1])
        /\ nr.searches # <<>> =>
              LET r == _penalized_astar(graph, nr.source, nr.target, nr.walked_edges,
                                        nr.searches[Len(nr.searches)])
              IN  r.found => ValidSimpleWalk(r.path)
        /\ (Returned /\ nr.result # NoneResult) =>
              /\ ValidSimpleWalk(nr.result.path)
              /\ Len(nr.result.edges) = Len(nr.result.path) - 1
              /\ \A i \in 1..Len(nr.result.edges) :
                    nr.result.edges[i] = <<nr.result.path[i], nr.result.path[i + 1]>>

\* a penalized search returned a walk over all four nodes
C29_Witness ==
    /\ Returned /\ nr.result # NoneResult
    /\ nr.source # nr.target
    /\ Len(nr.result.path) = 4 /\ Len(nr.result.edges) = 3
    /\ nr.result.path # nr.base.path
    /\ <<nr.result.path, nr.result.distance>> \in nr.examined

(***************************************************************************)
(* PROPERTIES OF ONE SEARCH                                                *)
(***************************************************************************)
\* seq grows with every insertion
SeqIncreases ==
    \A i, j \in 1..Len(sp.st.pushed) : i < j => sp.st.pushed[i][3] < sp.st.pushed[j][3]

\* the entries that were queued with the popped one and tie with it on f and g
TiedWithPopped ==
    {o \in sp.popped[1].from \ {sp.popped[1].entry} :
        o[1] = sp.popped[1].entry[1] /\ o[2] = sp.popped[1].entry[2]}

\* C25 as stated: seq strictly increases with each insertion, and of the
\* entries that tie on f and g the one inserted last (largest seq) is popped
\* first.
C25_LaterInsertionPoppedFirst ==
    /\ SeqIncreases
    /\ sp.popped # <<>> => \A o \in TiedWithPopped : sp.popped[1].entry[3] > o[3]

\* C25: seq strictly increases with each insertion, and of the entries that
\* tie on f and g the one inserted first (smallest seq) is popped first.
C25_EarlierInsertionPoppedFirst ==
    /\ SeqIncreases
    /\ sp.popped # <<>> => \A o \in TiedWithPopped : sp.popped[1].entry[3] < o[3]

\* an entry was popped while another entry with the same f and g was queued
C25_Witness ==
    /\ sp.popped # <<>>
    /\ TiedWithPopped # {}
    /\ Len(sp.st.pushed) >= 3


(***************************************************************************)
(* PROPERTIES OF THE STRING TABLES                                         *)
(***************************************************************************)
\* C30: once the slots of an edge are filled, the graph is built, and in
\* every slot of the edge name_table[edge_name_indices[slot]] is the name
\* the builder stored and highway_table[edge_highway_indices[slot]] its
\* highway, whatever the number of distinct names.
C30_IndexFieldsHoldTheIndex ==
    bd.pc # "fill" =>
        /\ bd.pc # "raised"
        /\ npz.exists
        /\ \A j \in 0..1 :
              /\ StringAt("name", npz.edge_name_indices[j]) = bd.name
              /\ StringAt("highway", npz.edge_highway_indices[j]) = bd.highway
        /\ bd.read_name \in {<<>>, <<bd.name>>}
        /\ bd.read_highway \in {<<>>, <<bd.highway>>}

====
